---------------------------- MODULE Spec2Model ----------------------------
(***************************************************************************)
(* Model of the subscription import pipeline of Abo-Manager: the merchant  *)
(* normalizer, the recurring-pattern detector (analyzeImportedTransactions)*)
(* and the import-confirmation step of the Smart Import dialog.            *)
(*                                                                         *)
(* Representation.                                                         *)
(*  - A JavaScript string is a sequence of one-character strings.          *)
(*  - A date string is an ISO YYYY-MM-DD date, represented by its day      *)
(*    number (days since a fixed epoch); for such strings the string order *)
(*    used by Array.prototype.sort() and the order of Date.getTime()       *)
(*    coincide, and getTime() differences are whole days.                  *)
(*  - An amount is a whole number of cents; every quotient of the source   *)
(*    is kept as an exact fraction and compared by cross-multiplication.   *)
(*  - A JavaScript number that may be NaN is a record [nan, v].            *)
(***************************************************************************)
EXTENDS Integers, Sequences, FiniteSets, TLC

VARIABLES
    transactions,        \* dialog state: the ParsedTransaction[] under analysis
    subscriptions,       \* useSubscriptions() state: the user's subscriptions
    candidates,          \* dialog state: SubscriptionCandidate[]
    selectedCandidates,  \* dialog state: indices selected for import
    ignoredCandidates,   \* dialog state: indices the user ignored
    step,                \* dialog state: 'upload' | 'preview' | 'results'
    isAnalyzing,         \* dialog state
    timer,               \* the pending setTimeout callback of the analysis and its closure
    importing,           \* the handleImport call in flight: its closure and loop position
    nextId,              \* source of fresh ids (crypto.randomUUID, server ids)
    csv,                 \* dialog state of a CSV upload: headers, csvData, columnMapping
    pdf,                 \* a PDF upload: the file, the parse-pdf request and its response
    call                 \* a call of a function of the PDF extractor: argument and result

vars == <<transactions, subscriptions, candidates, selectedCandidates,
          ignoredCandidates, step, isAnalyzing, timer, importing, nextId,
          csv, pdf, call>>

\* the state of the file upload
fileVars == <<csv, pdf, call>>

----------------------------------------------------------------------------
(* JavaScript string primitives over sequences of characters.              *)

UpperChars == <<"A","B","C","D","E","F","G","H","I","J","K","L","M",
                "N","O","P","Q","R","S","T","U","V","W","X","Y","Z">>

LowerChars == <<"a","b","c","d","e","f","g","h","i","j","k","l","m",
                "n","o","p","q","r","s","t","u","v","w","x","y","z">>

DigitChars == {"0","1","2","3","4","5","6","7","8","9"}

UpperSet == {UpperChars[i] : i \in 1..Len(UpperChars)}

LowerSet == {LowerChars[i] : i \in 1..Len(LowerChars)}

LowerOf == [c \in UpperSet |-> LowerChars[CHOOSE i \in 1..Len(UpperChars) : UpperChars[i] = c]]

UpperOf == [c \in LowerSet |-> UpperChars[CHOOSE i \in 1..Len(LowerChars) : LowerChars[i] = c]]

charToLower(c) == IF c \in UpperSet THEN LowerOf[c] ELSE c

charToUpper(c) == IF c \in LowerSet THEN UpperOf[c] ELSE c

\* String.prototype.toLowerCase
toLowerCase(s) == [i \in 1..Len(s) |-> charToLower(s[i])]

IsDigit(c) == c \in DigitChars

\* \w of a regular expression: [A-Za-z0-9_]
IsWordChar(c) == IsDigit(c) \/ c \in UpperSet \/ c \in LowerSet \/ c = "_"

\* \s of a regular expression (the model's alphabet has the blank and the tab)
IsSpace(c) == c \in {" ", "\t"}

\* sub occurs in s at position i
MatchesAt(s, sub, i) ==
    /\ i >= 1
    /\ i + Len(sub) - 1 <= Len(s)
    /\ \A k \in 1..Len(sub) : s[i + k - 1] = sub[k]

\* String.prototype.includes
includes(s, sub) == \E i \in 1..(Len(s) - Len(sub) + 1) : MatchesAt(s, sub, i)

\* String.prototype.trim
trim(s) ==
    LET keep == {i \in 1..Len(s) : ~IsSpace(s[i])}
    IN  IF keep = {} THEN <<>>
        ELSE LET lo == CHOOSE i \in keep : \A j \in keep : i <= j
                 hi == CHOOSE i \in keep : \A j \in keep : i >= j
             IN  SubSeq(s, lo, hi)

\* end (exclusive) of the maximal run of digits that starts at i
RECURSIVE DigitRunEnd(_, _)
DigitRunEnd(s, i) ==
    IF i <= Len(s) /\ IsDigit(s[i]) THEN DigitRunEnd(s, i + 1) ELSE i

\* .replace(/\d{4,}/g, '')
RECURSIVE RemoveLongNumbers(_, _)
RemoveLongNumbers(s, i) ==
    IF i > Len(s) THEN <<>>
    ELSE IF IsDigit(s[i])
         THEN LET e == DigitRunEnd(s, i)
              IN  IF e - i >= 4
                  THEN RemoveLongNumbers(s, e)
                  ELSE SubSeq(s, i, e - 1) \o RemoveLongNumbers(s, e)
         ELSE <<s[i]>> \o RemoveLongNumbers(s, i + 1)

\* .replace(/[*]/g, '')
RemoveAsterisks(s) == SelectSeq(s, LAMBDA c : c # "*")

\* the alternatives of /\b(paypal|payment|lastschrift|sepa|kartenzahlung)\b/gi
NoiseWords ==
    << <<"p","a","y","p","a","l">>,
       <<"p","a","y","m","e","n","t">>,
       <<"l","a","s","t","s","c","h","r","i","f","t">>,
       <<"s","e","p","a">>,
       <<"k","a","r","t","e","n","z","a","h","l","u","n","g">> >>

\* \b<w>\b matches s at position i (s is in lower case already, so the
\* i flag of the expression changes nothing)
NoiseWordAt(s, w, i) ==
    /\ MatchesAt(s, w, i)
    /\ (i = 1 \/ ~IsWordChar(s[i - 1]))
    /\ (i + Len(w) > Len(s) \/ ~IsWordChar(s[i + Len(w)]))

\* .replace(/\b(paypal|payment|lastschrift|sepa|kartenzahlung)\b/gi, '')
RECURSIVE RemoveNoiseWords(_, _)
RemoveNoiseWords(s, i) ==
    IF i > Len(s) THEN <<>>
    ELSE LET hits == {k \in 1..Len(NoiseWords) : NoiseWordAt(s, NoiseWords[k], i)}
         IN  IF hits # {}
             THEN LET k == CHOOSE x \in hits : \A y \in hits : x <= y
                  IN  RemoveNoiseWords(s, i + Len(NoiseWords[k]))
             ELSE <<s[i]>> \o RemoveNoiseWords(s, i + 1)

\* s.split(/\s+/): the pieces between maximal runs of white space
RECURSIVE SplitFrom(_, _, _)
SplitFrom(s, i, cur) ==
    IF i > Len(s) THEN <<cur>>
    ELSE IF IsSpace(s[i])
         THEN IF i > 1 /\ IsSpace(s[i - 1])
              THEN SplitFrom(s, i + 1, cur)
              ELSE <<cur>> \o SplitFrom(s, i + 1, <<>>)
         ELSE SplitFrom(s, i + 1, Append(cur, s[i]))

split(s) == SplitFrom(s, 1, <<>>)

\* words.join(' ')
RECURSIVE join(_)
join(words) ==
    IF Len(words) = 0 THEN <<>>
    ELSE IF Len(words) = 1 THEN words[1]
    ELSE words[1] \o <<" ">> \o join(Tail(words))

\* arr.slice(0, n)
Take(seq, n) == SubSeq(seq, 1, IF Len(seq) < n THEN Len(seq) ELSE n)

----------------------------------------------------------------------------
(* The provider catalog, in the order Object.values(PROVIDERS) yields it.  *)

PROVIDERS ==
    << [id |-> "netflix",      name |-> <<"N","e","t","f","l","i","x">>,
        category |-> "Entertainment", noticePeriodInfo |-> TRUE],
       [id |-> "spotify",      name |-> <<"S","p","o","t","i","f","y">>,
        category |-> "Entertainment", noticePeriodInfo |-> TRUE],
       [id |-> "amazon_prime", name |-> <<"A","m","a","z","o","n"," ","P","r","i","m","e">>,
        category |-> "Entertainment", noticePeriodInfo |-> TRUE],
       [id |-> "disney_plus",  name |-> <<"D","i","s","n","e","y","+">>,
        category |-> "Entertainment", noticePeriodInfo |-> TRUE],
       [id |-> "dazn",         name |-> <<"D","A","Z","N">>,
        category |-> "Entertainment", noticePeriodInfo |-> TRUE],
       [id |-> "adobe",        name |-> <<"A","d","o","b","e"," ","C","r","e","a","t","i","v","e"," ","C","l","o","u","d">>,
        category |-> "Software", noticePeriodInfo |-> TRUE],
       [id |-> "apple_icloud", name |-> <<"A","p","p","l","e"," ","i","C","l","o","u","d","+">>,
        category |-> "Software", noticePeriodInfo |-> TRUE],
       [id |-> "google_one",   name |-> <<"G","o","o","g","l","e"," ","O","n","e">>,
        category |-> "Software", noticePeriodInfo |-> TRUE],
       [id |-> "telekom",      name |-> <<"T","e","l","e","k","o","m"," ","/"," ","T","-","M","o","b","i","l","e">>,
        category |-> "Telecommunication", noticePeriodInfo |-> TRUE],
       [id |-> "vodafone",     name |-> <<"V","o","d","a","f","o","n","e">>,
        category |-> "Telecommunication", noticePeriodInfo |-> TRUE],
       [id |-> "one_and_one",  name |-> <<"1","&","1">>,
        category |-> "Telecommunication", noticePeriodInfo |-> TRUE],
       [id |-> "mcfit",        name |-> <<"M","c","F","I","T">>,
        category |-> "Gym", noticePeriodInfo |-> TRUE] >>

\* the variant that takes the last catalog entry whose name the key contains
providerMatchLast(key) ==
    LET hits == {k \in 1..Len(PROVIDERS) :
                    includes(toLowerCase(key), toLowerCase(PROVIDERS[k].name))}
    IN  IF hits = {} THEN 0 ELSE CHOOSE k \in hits : \A j \in hits : k >= j

\* Object.values(PROVIDERS).find(p => key.toLowerCase().includes(p.name.toLowerCase())):
\* the index of the first catalog entry whose name the key contains, 0 for undefined
providerMatch(key) ==
    LET hits == {k \in 1..Len(PROVIDERS) :
                    includes(toLowerCase(key), toLowerCase(PROVIDERS[k].name))}
    IN  IF hits = {} THEN 0 ELSE CHOOSE k \in hits : \A j \in hits : k <= j

----------------------------------------------------------------------------
(* normalizeMerchant                                                       *)

\* the description after the four replacements and the trim
cleanDescription(description) ==
    trim(RemoveNoiseWords(
            RemoveAsterisks(RemoveLongNumbers(toLowerCase(description), 1)), 1))

\* words.filter(w => w.length > 2).slice(0, 3).join(' ')
firstWords(normalized) ==
    join(Take(SelectSeq(split(normalized), LAMBDA w : Len(w) > 2), 3))

\* `provider ? provider.name : words...join(' ')` for the provider found
merchantKey(normalized, k) ==
    IF k > 0 THEN PROVIDERS[k].name ELSE firstWords(normalized)

\* the part of normalizeMerchant after the replacements
merchantOfNormalized(normalized) == merchantKey(normalized, providerMatch(normalized))

normalizeMerchant(description) ==
    IF Len(description) = 0 THEN <<>>
    ELSE merchantOfNormalized(cleanDescription(description))

----------------------------------------------------------------------------
(* JavaScript numbers.  A value that can be NaN is a record [nan, v]; an   *)
(* average of amounts is an exact fraction of cents in lowest terms.       *)

Num(v) == [nan |-> FALSE, v |-> v]

NaN == [nan |-> TRUE, v |-> 0]

Abs(x) == IF x < 0 THEN -x ELSE x

Min(a, b) == IF a < b THEN a ELSE b

RECURSIVE GCD(_, _)
GCD(a, b) == IF b = 0 THEN a ELSE GCD(b, a % b)

Fraction(num, den) ==
    LET g == GCD(Abs(num), den) IN [num |-> num \div g, den |-> den \div g]

RECURSIVE Sum(_)
Sum(seq) == IF Len(seq) = 0 THEN 0 ELSE seq[1] + Sum(Tail(seq))

SeqMax(seq) == CHOOSE x \in {seq[i] : i \in 1..Len(seq)} :
                   \A i \in 1..Len(seq) : seq[i] <= x

SeqMin(seq) == CHOOSE x \in {seq[i] : i \in 1..Len(seq)} :
                   \A i \in 1..Len(seq) : seq[i] >= x

\* Math.round(num / den) for num >= 0, den > 0: halves round up
RoundDiv(num, den) == (2 * num + den) \div (2 * den)

\* Array.prototype.sort with a consistent comparator on an integer key:
\* ascending and stable (ECMAScript 2019).  An element's place is the number
\* of elements that precede it: those with a smaller key, and those with an
\* equal key that stood before it.
SortStable(seq, key(_)) ==
    LET n == Len(seq)
        place(i) == 1 + Cardinality({j \in 1..n :
                        \/ key(seq[j]) < key(seq[i])
                        \/ (key(seq[j]) = key(seq[i]) /\ j < i)})
    IN  [p \in 1..n |-> seq[CHOOSE i \in 1..n : place(i) = p]]

----------------------------------------------------------------------------
(* detectInterval and areAmountsConsistent                                 *)

\* daysBetween(date1, date2) for two ISO dates
daysBetween(date1, date2) == Abs(date2 - date1)

\* a variant of the bands that leaves their end points out
intervalOfExclusive(total, count) ==
    IF      total > 350 * count /\ total < 380 * count THEN "yearly"
    ELSE IF total > 25 * count  /\ total < 35 * count  THEN "monthly"
    ELSE IF total > 5 * count   /\ total < 9 * count   THEN "weekly"
    ELSE IF total > 85 * count  /\ total < 95 * count  THEN "quarterly"
    ELSE "monthly"

\* the interval bands of detectInterval, tested on avgGap = total / count
intervalOf(total, count) ==
    IF      total >= 350 * count /\ total <= 380 * count THEN "yearly"
    ELSE IF total >= 25 * count  /\ total <= 35 * count  THEN "monthly"
    ELSE IF total >= 5 * count   /\ total <= 9 * count   THEN "weekly"
    ELSE IF total >= 85 * count  /\ total <= 95 * count  THEN "quarterly"
    ELSE "monthly"

\* a / b <= c / d for a, c >= 0 and b, d > 0, without forming the products
\* a * d and c * b: by integer parts, then by the inverted remainders
RECURSIVE LeqFrac(_, _, _, _)
LeqFrac(a, b, c, d) ==
    IF a \div b # c \div d THEN a \div b < c \div d
    ELSE IF a % b = 0 THEN TRUE
    ELSE IF c % d = 0 THEN FALSE
    ELSE LeqFrac(d, c % d, b, a % b)

\* a variant of the interval confidence that measures the distance of the
\* average gap from a target of 30 days:
\* Math.round(Math.max(0, 100 - |avgGap - 30| / 30 * 100))
consistencyWithTarget(gaps) ==
    IF Abs(Sum(gaps) - 30 * Len(gaps)) >= 30 * Len(gaps) THEN 0
    ELSE RoundDiv(100 * (30 * Len(gaps) - Abs(Sum(gaps) - 30 * Len(gaps))),
                  30 * Len(gaps))

\* Math.round(Math.max(0, 100 - stdDev / avgGap * 100)) for gaps with a
\* positive sum.  With D the sum of the k gaps and N = k * sum(g^2) - D^2,
\* stdDev / avgGap = sqrt(N) / D, and the rounded value is at least c
\* exactly when 100 * sqrt(N) / D <= 100.5 - c, that is when
\* N / D^2 <= (201 - 2c)^2 / 40000.
consistencyOf(gaps) ==
    LET k == Len(gaps)
        D == Sum(gaps)
        N == k * Sum([i \in 1..k |-> gaps[i] * gaps[i]]) - D * D
        reached == {c \in 1..100 :
                       LeqFrac(N, D * D, (201 - 2 * c) * (201 - 2 * c), 40000)}
    IN  IF reached = {} THEN 0
        ELSE CHOOSE c \in reached : \A x \in reached : x <= c

detectInterval(dates) ==
    IF Len(dates) < 2
    THEN [interval |-> "monthly", intervalDays |-> Num(30), confidence |-> Num(0)]
    ELSE LET sortedDates == SortStable(dates, LAMBDA d : d)
             gaps == [i \in 1..(Len(sortedDates) - 1) |->
                         daysBetween(sortedDates[i], sortedDates[i + 1])]
             total == Sum(gaps)
         IN  [interval     |-> intervalOf(total, Len(gaps)),
              intervalDays |-> Num(RoundDiv(total, Len(gaps))),
              \* avgGap = 0 gives stdDev / avgGap = 0 / 0 = NaN
              confidence   |-> IF total = 0 THEN NaN ELSE Num(consistencyOf(gaps))]

\* variants of the gate with twice and with half the tolerance
areAmountsLoose(amounts, tolerance) ==
    /\ Len(amounts) >= 2
    /\ Sum(amounts) # 0
    /\ \A i \in 1..Len(amounts) :
          100 * Abs(Len(amounts) * amounts[i] - Sum(amounts))
              < 2 * tolerance * Abs(Sum(amounts))

areAmountsStrict(amounts, tolerance) ==
    /\ Len(amounts) >= 2
    /\ Sum(amounts) # 0
    /\ \A i \in 1..Len(amounts) :
          200 * Abs(Len(amounts) * amounts[i] - Sum(amounts))
              < tolerance * Abs(Sum(amounts))

\* areAmountsConsistent(amounts, tolerance), tolerance in hundredths:
\* every |a - avg| / |avg| < tolerance / 100 with avg = Sum / n.  A zero
\* average gives 0 / 0 = NaN, which is not below the tolerance.
areAmountsConsistent(amounts, tolerance) ==
    IF Len(amounts) < 2 THEN FALSE
    ELSE LET n == Len(amounts)
             total == Sum(amounts)
         IN  /\ total # 0
             /\ \A i \in 1..n :
                   100 * Abs(n * amounts[i] - total) < tolerance * Abs(total)

----------------------------------------------------------------------------
(* The groups object of analyzeImportedTransactions                        *)

\* the grouping key of a transaction
merchantOf(tx) == normalizeMerchant(tx.description)

\* the grouping keys of the transactions, in their order
merchantsOf(txs) == [i \in 1..Len(txs) |-> merchantOf(txs[i])]

\* the keys of `groups` in the order they were created: the distinct
\* non-empty merchants in order of first appearance
insertionKeys(merchants) ==
    LET first == SelectSeq([i \in 1..Len(merchants) |-> i],
                     LAMBDA i : /\ merchants[i] # <<>>
                                /\ \A j \in 1..(i - 1) : merchants[j] # merchants[i])
    IN  [p \in 1..Len(first) |-> merchants[first[p]]]

DigitValue(c) ==
    LET digits == <<"0","1","2","3","4","5","6","7","8","9">>
    IN  (CHOOSE i \in 1..10 : digits[i] = c) - 1

RECURSIVE ToNumber(_)
ToNumber(key) ==
    IF Len(key) = 0 THEN 0
    ELSE 10 * ToNumber(SubSeq(key, 1, Len(key) - 1)) + DigitValue(key[Len(key)])

\* a property key that is a canonical array index ("0", "7", "123"):
\* such keys are enumerated first, in ascending numeric order.  (Keys of up
\* to nine digits; a merchant key has runs of four or more digits only where
\* removed asterisks joined shorter runs.)
isArrayIndex(key) ==
    /\ Len(key) > 0
    /\ Len(key) <= 9
    /\ \A i \in 1..Len(key) : IsDigit(key[i])
    /\ (Len(key) = 1 \/ key[1] # "0")

\* the key order of Object.entries(groups)
entriesOrder(keys) ==
    SortStable(SelectSeq(keys, isArrayIndex), ToNumber)
        \o SelectSeq(keys, LAMBDA k : ~isArrayIndex(k))

\* keys for which groups[merchant] is an inherited member of Object.prototype
\* and not an array: groups[merchant].push(tx) throws a TypeError
ObjectPrototypeKeys ==
    { <<"c","o","n","s","t","r","u","c","t","o","r">>,
      <<"_","_","p","r","o","t","o","_","_">> }

\* a variant of the grouping that puts every transaction in every group
groupOfAll(txs, merchants, merchant) == txs

\* groups[merchant], given the grouping keys of the transactions
groupOf(txs, merchants, merchant) ==
    LET members == SelectSeq([i \in 1..Len(txs) |-> i], LAMBDA i : merchants[i] = merchant)
    IN  [p \in 1..Len(members) |-> txs[members[p]]]

----------------------------------------------------------------------------
(* The analysis of one group                                               *)

\* a variant of the overall confidence without the transaction frequency
overallWithoutFrequency(intervalConfidence, amounts) ==
    RoundDiv(4 * intervalConfidence * Sum(amounts)
               + 3 * (100 * Sum(amounts)
                        - 100 * Len(amounts) * (SeqMax(amounts) - SeqMin(amounts))),
             10 * Sum(amounts))

\* Math.round(intervalConfidence * 0.4 + amountConsistency * 0.3 +
\*            transactionFrequency * 0.3), where amountConsistency is
\* 100 - (max - min) / avgAmount * 100 and avgAmount = total / n, taken
\* over the common denominator 10 * total
overallConfidence(intervalConfidence, amounts) ==
    LET n == Len(amounts)
        total == Sum(amounts)
        amountVariance == SeqMax(amounts) - SeqMin(amounts)
        transactionFrequency == Min(100, n * 20)
    IN  RoundDiv(4 * intervalConfidence * total
                   + 3 * (100 * total - 100 * n * amountVariance)
                   + 3 * transactionFrequency * total,
                 10 * total)

\* a variant of the threshold that also drops a confidence of exactly 40
belowOrAtThreshold(confidence) == ~confidence.nan /\ confidence.v <= 40

\* the confidence threshold: `if (confidence < 40) return`; NaN < 40 is false
belowThreshold(confidence) == ~confidence.nan /\ confidence.v < 40

\* merchant.charAt(0).toUpperCase() + merchant.slice(1)
capitalize(merchant) ==
    IF Len(merchant) = 0 THEN <<>>
    ELSE <<charToUpper(merchant[1])>> \o Tail(merchant)

\* a variant of the duplicate test that compares the provider ids only
hasDuplicateByProvider(existingSubscriptions, merchant, providerId) ==
    \E i \in 1..Len(existingSubscriptions) :
        /\ existingSubscriptions[i].providerId # ""
        /\ existingSubscriptions[i].providerId = providerId

\* existingSubscriptions.find(...) is defined
hasDuplicate(existingSubscriptions, merchant, providerId) ==
    \E i \in 1..Len(existingSubscriptions) :
        LET sub == existingSubscriptions[i]
        IN  \/ toLowerCase(normalizeMerchant(sub.name)) = toLowerCase(merchant)
            \/ (sub.providerId # "" /\ sub.providerId = providerId)

\* The body of the Object.entries(groups).forEach callback for one group:
\* [emit |-> FALSE] when the callback returns early, otherwise the candidate
\* it pushes.  The callback is written as a chain of steps, each passing on
\* the constants computed so far.  threw tells that the callback ended in
\* an exception.
noCandidate == [emit |-> FALSE, threw |-> FALSE]

\* the time value of `new Date(text)` for a text that is not a date: NaN,
\* written as a day number no date has
InvalidDate == -1000000

\* lastDate.toISOString() on a Date with the time value NaN: a RangeError
\* (Invalid time value)
invalidTime == [emit |-> FALSE, threw |-> TRUE]

\* provider?.id, "" for undefined
providerIdOf(pm) == IF pm > 0 THEN PROVIDERS[pm].id ELSE ""

\* the reason of a candidate
reasonOf(duplicate, n) ==
    IF duplicate
    THEN [n |-> 0, text |-> "Existing subscription - price change detected"]
    ELSE [n |-> n, text |-> "transactions detected"]

\* nextPaymentDate: lastDate.setDate(lastDate.getDate() + intervalDays) and
\* toISOString().  dstShift is the number of days (0 or 1) lost when
\* setDate, which works in local time, crosses a change to daylight-saving
\* time before toISOString converts back to UTC.
nextPaymentOf(lastDate, intervalDays, dstShift) ==
    lastDate + intervalDays - (IF intervalDays > 0 THEN dstShift ELSE 0)

\* candidates.push({...})
pushCandidate(merchant, txs, avgAmount, di, confidence, pm, duplicate, dstShift) ==
    [emit |-> TRUE,
     threw |-> FALSE,
     candidate |->
       [subscription |->
          [name |-> IF pm > 0 THEN PROVIDERS[pm].name ELSE capitalize(merchant),
           price |-> avgAmount,
           currency |-> IF txs[1].currency = "" THEN "EUR" ELSE txs[1].currency,
           interval |-> di.interval,
           providerId |-> providerIdOf(pm),
           category |-> IF pm > 0 THEN PROVIDERS[pm].category ELSE "Other",
           startDate |-> txs[1].date,
           nextPaymentDate |->
               nextPaymentOf(txs[Len(txs)].date, di.intervalDays.v, dstShift),
           paymentMethod |-> "Bank Transfer",
           active |-> TRUE,
           status |-> "active",
           noticePeriodDays |->
               IF pm > 0 /\ PROVIDERS[pm].noticePeriodInfo THEN 30 ELSE 14],
        confidence |-> confidence,
        transactions |-> txs,
        interval |-> di.interval,
        intervalDays |-> di.intervalDays,
        reason |-> reasonOf(duplicate, Len(txs))]]

\* the provider match and the check for an existing subscription
matchExisting(merchant, txs, avgAmount, di, confidence, pm, existingSubscriptions, dstShift) ==
    pushCandidate(merchant, txs, avgAmount, di, confidence, pm,
                  hasDuplicate(existingSubscriptions, merchant, providerIdOf(pm)),
                  dstShift)

\* `if (confidence < 40) return`
checkThreshold(merchant, txs, amounts, di, confidence, existingSubscriptions, dstShift) ==
    IF belowThreshold(confidence) THEN noCandidate
    ELSE matchExisting(merchant, txs, Fraction(Sum(amounts), Len(amounts)), di,
                       confidence, providerMatch(merchant),
                       existingSubscriptions, dstShift)

\* the overall confidence; NaN when the interval confidence is NaN
scoreGroup(merchant, txs, amounts, di, existingSubscriptions, dstShift) ==
    checkThreshold(merchant, txs, amounts, di,
                   IF di.confidence.nan THEN NaN
                   ELSE Num(overallConfidence(di.confidence.v, amounts)),
                   existingSubscriptions, dstShift)

\* `if (!areAmountsConsistent(amounts, 0.1)) return`, then detectInterval.
\* A date of the group that `new Date` cannot parse makes a gap NaN, and
\* with it avgGap, intervalDays and both confidences; NaN < 40 is false, so
\* the callback runs on to lastDate.setDate(NaN) and toISOString() throws.
checkAmounts(merchant, txs, amounts, existingSubscriptions, dstShift) ==
    IF ~areAmountsConsistent(amounts, 10) THEN noCandidate
    ELSE IF \E i \in 1..Len(txs) : txs[i].date = InvalidDate THEN invalidTime
    ELSE scoreGroup(merchant, txs, amounts,
                    detectInterval([i \in 1..Len(txs) |-> txs[i].date]),
                    existingSubscriptions, dstShift)

\* the group sorted by date: amounts = txs.map(t => Math.abs(t.amount))
analyzeSorted(merchant, txs, existingSubscriptions, dstShift) ==
    checkAmounts(merchant, txs, [i \in 1..Len(txs) |-> Abs(txs[i].amount)],
                 existingSubscriptions, dstShift)

\* `if (txs.length < 2) return`, then txs.sort by date
analyzeGroup(merchant, group, existingSubscriptions, dstShift) ==
    IF Len(group) < 2 THEN noCandidate
    ELSE analyzeSorted(merchant, SortStable(group, LAMBDA t : t.date),
                       existingSubscriptions, dstShift)

----------------------------------------------------------------------------
(* analyzeImportedTransactions                                             *)

\* the days a computed nextPaymentDate can lose to a daylight-saving change
DstShifts == {0, 1}

\* all orders of a list
allOrders(seq) ==
    LET n == Len(seq)
    IN  {[i \in 1..n |-> seq[f[i]]] :
            f \in {g \in [1..n -> 1..n] : \A a, b \in 1..n : a # b => g[a] # g[b]}}

\* the confidences of the candidates that are numbers
numericConfidences(cands) ==
    {cands[i].confidence.v : i \in {j \in 1..Len(cands) : ~cands[j].confidence.nan}}

\* candidates.sort((a, b) => b.confidence - a.confidence): the possible
\* results.  Without a NaN the comparator is consistent and the sort is the
\* stable descending sort.  A NaN confidence makes the comparator return NaN,
\* taken as 0: if all other confidences are equal every pair compares equal
\* and the (stable) sort leaves the list alone; otherwise the comparator is
\* not consistent and the order is implementation-defined.
sortOutcomes(cands) ==
    IF \A i \in 1..Len(cands) : ~cands[i].confidence.nan
    THEN {SortStable(cands, LAMBDA c : 0 - c.confidence.v)}
    ELSE IF Cardinality(numericConfidences(cands)) <= 1 THEN {cands}
    ELSE allOrders(cands)

\* the outcome of the forEach callback for every key of `groups`, in the
\* order of Object.entries, under each daylight-saving shift
groupResults(txs, merchants, keys, existingSubscriptions) ==
    [p \in 1..Len(keys) |->
        [sh \in DstShifts |->
            analyzeGroup(keys[p], groupOf(txs, merchants, keys[p]),
                         existingSubscriptions, sh)]]

\* the candidates array before the final sort: the possible contents, one
\* for every choice of the daylight-saving shift of each pushed candidate
shiftChoices(emitted) ==
    {[i \in 1..Len(emitted) |-> emitted[i][shifts[i]].candidate] :
        shifts \in [1..Len(emitted) -> DstShifts]}

pushedCandidates(results) ==
    shiftChoices(SelectSeq(results, LAMBDA r : r[0].emit))

\* the end of the call, given the outcomes of the callback: an exception of
\* a callback leaves the call; otherwise the candidates are sorted
sortPushed(results) ==
    IF \E p \in 1..Len(results) : results[p][0].threw
    THEN [threw |-> TRUE, returns |-> {}]
    ELSE [threw |-> FALSE,
          returns |-> UNION {sortOutcomes(pushed) : pushed \in pushedCandidates(results)}]

\* the grouping loop throws when a key names a member of Object.prototype;
\* otherwise the groups are analysed in the order of Object.entries
analyzeGroups(txs, merchants, existingSubscriptions) ==
    IF \E i \in 1..Len(merchants) : merchants[i] \in ObjectPrototypeKeys
    THEN [threw |-> TRUE, returns |-> {}]
    ELSE sortPushed(groupResults(txs, merchants,
                                 entriesOrder(insertionKeys(merchants)),
                                 existingSubscriptions))

\* analyzeImportedTransactions(transactions, existingSubscriptions): whether
\* the call throws, and otherwise the set of lists it can return
analyzeImportedTransactions(txs, existingSubscriptions) ==
    analyzeGroups(txs, merchantsOf(txs), existingSubscriptions)

----------------------------------------------------------------------------
(* useSubscriptions: updateSubscription and addSubscription, as called by  *)
(* handleImport.  closureSubs is the `subscriptions` of the render the     *)
(* handler was created in; current is the state the functional updates of  *)
(* setSubscriptions see; ok tells whether the save succeeded.              *)

\* Math.round(price * 100) / 100 of toBackendFormat / fromBackendFormat
wholeCents(price) == Fraction(RoundDiv(price.num, price.den), 1)

updateSubscription(current, closureSubs, id, updates, ok) ==
    LET hits == {i \in 1..Len(closureSubs) : closureSubs[i].id = id}
    IN  IF hits = {} THEN current
        ELSE LET target == closureSubs[CHOOSE i \in hits : \A j \in hits : i <= j]
                 updatedSub == [target EXCEPT !.price = updates.price,
                                              !.nextPaymentDate = updates.nextPaymentDate]
                 optimistic == [i \in 1..Len(current) |->
                                   IF current[i].id = id THEN updatedSub ELSE current[i]]
             IN  IF ok THEN optimistic ELSE closureSubs

addSubscription(current, closureSubs, sub, tempId, serverId, user, ok) ==
    LET newSub == [sub EXCEPT !.id = tempId]
        optimistic == Append(current, newSub)
        created == [sub EXCEPT !.id = serverId, !.price = wholeCents(sub.price)]
    IN  IF ~ok THEN closureSubs
        ELSE IF user
             THEN [i \in 1..Len(optimistic) |->
                      IF optimistic[i].id = tempId THEN created ELSE optimistic[i]]
             ELSE optimistic

----------------------------------------------------------------------------
(* handleImport                                                            *)

\* the test of subscriptions.find(...) in handleImport
matchesCandidate(sub, candidate) ==
    \/ toLowerCase(sub.name) = toLowerCase(candidate.subscription.name)
    \/ (sub.providerId # "" /\ sub.providerId = candidate.subscription.providerId)

\* subscriptions.find(...): the position of the first match, 0 for undefined
findExisting(subs, candidate) ==
    LET hits == {i \in 1..Len(subs) : matchesCandidate(subs[i], candidate)}
    IN  IF hits = {} THEN 0 ELSE CHOOSE i \in hits : \A j \in hits : i <= j

\* { ...candidate.subscription, id }
withId(subscription, id) ==
    [f \in DOMAIN subscription \cup {"id"} |->
        IF f = "id" THEN id ELSE subscription[f]]

NoTimer == [pending |-> FALSE, parsed |-> <<>>, subscriptions |-> <<>>]

\* no file has been chosen
NoCsv ==
    [parsing |-> FALSE, fields |-> <<>>, rows |-> <<>>, headers |-> <<>>, data |-> <<>>,
     columnMapping |-> [date |-> <<>>, description |-> <<>>, amount |-> <<>>,
                        currency |-> <<>>]]

NoPdf == [phase |-> "none"]

NoCall == [returned |-> FALSE]

noFile == csv = NoCsv /\ pdf = NoPdf /\ call = NoCall

NotImporting ==
    [active |-> FALSE, pos |-> 0, user |-> FALSE, candidates |-> <<>>,
     selectedCandidates |-> <<>>, ignoredCandidates |-> <<>>,
     subscriptions |-> <<>>, imported |-> 0, updated |-> 0]

----------------------------------------------------------------------------
(* The inputs: bounded families of transaction lists and of existing       *)
(* subscriptions.                                                          *)

MaxTx == 3        \* longest list of the gate family

MaxGroups == 2    \* most merchants of the pairs family

MaxExisting == 2  \* most existing subscriptions of the reconciliation family

Tx(description, amount, date) ==
    [description |-> description, amount |-> amount, date |-> date, currency |-> "EUR"]

SeqsUpTo(S, n) == UNION {[1..k -> S] : k \in 0..n}

dNetflix == <<"N","E","T","F","L","I","X"," ","1","2","3","4","5">>

dGymPaypal == <<"P","A","Y","P","A","L"," ","*","G","Y","M">>

dGymRef == <<"G","y","m"," ","2","0","2","4","0","1","0","1">>

dIndex == <<"1","2","3">>

dSpotify == <<"S","P","O","T","I","F","Y"," ","A","B">>

dConstructor == <<"C","o","n","s","t","r","u","c","t","o","r">>

\* Gate family: every list of up to MaxTx transactions of two merchants,
\* amounts of 10.00, 11.50 and -12.50, two dates; no existing subscriptions.
GateTransactions ==
    {Tx(d, a, t) : d \in {dNetflix, dGymPaypal},
                   a \in {1000, 1150, -1250},
                   t \in {0, 30}}

GateInputs == SeqsUpTo(GateTransactions, MaxTx)

\* Example family: three transactions of one merchant with the amounts
\* 10.00, 10.00 and 11.50 in any order, on any dates of a set.
ExampleDates == {0, 7, 30, 37, 90}

ExampleAmounts == {<<1000, 1000, 1150>>, <<1000, 1150, 1000>>, <<1150, 1000, 1000>>}

ExampleInputs ==
    {[i \in 1..3 |-> Tx(dGymRef, a[i], t[i])] :
        a \in ExampleAmounts, t \in [1..3 -> ExampleDates]}

\* Pairs family: up to MaxGroups merchants in any order, two transactions
\* each: amounts (10.00, 10.00) or (10.00, 11.50), on one date or 30 days
\* apart.
PairDescriptions == <<dNetflix, dGymPaypal, dIndex, dSpotify>>

PairShapes == {[second |-> a, gap |-> g] : a \in {1000, 1150}, g \in {0, 30}}

RECURSIVE Concat(_)
Concat(seqs) == IF Len(seqs) = 0 THEN <<>> ELSE seqs[1] \o Concat(Tail(seqs))

PairInputs ==
    LET n == Min(MaxGroups, Len(PairDescriptions))
        orders == UNION {{o \in [1..k -> 1..Len(PairDescriptions)] :
                             \A a, b \in 1..k : a # b => o[a] # o[b]} : k \in 1..n}
    IN  UNION {{Concat([g \in 1..Len(o) |->
                          << Tx(PairDescriptions[o[g]], 1000, 0),
                             Tx(PairDescriptions[o[g]], sh[g].second, sh[g].gap) >>]) :
                   sh \in [1..Len(o) -> PairShapes]} : o \in orders}

\* Ranking family: three merchants with two transactions each, one pair on
\* a single date, one 30 days apart with equal amounts and one 30 days apart
\* with the amounts 10.00 and 11.50, in every order of the three shapes.
RankingShapes ==
    { <<[second |-> 1000, gap |-> 0], [second |-> 1000, gap |-> 30], [second |-> 1150, gap |-> 30]>>,
      <<[second |-> 1000, gap |-> 0], [second |-> 1150, gap |-> 30], [second |-> 1000, gap |-> 30]>>,
      <<[second |-> 1000, gap |-> 30], [second |-> 1000, gap |-> 0], [second |-> 1150, gap |-> 30]>>,
      <<[second |-> 1150, gap |-> 30], [second |-> 1000, gap |-> 0], [second |-> 1000, gap |-> 30]>>,
      <<[second |-> 1000, gap |-> 30], [second |-> 1150, gap |-> 30], [second |-> 1000, gap |-> 0]>>,
      <<[second |-> 1150, gap |-> 30], [second |-> 1000, gap |-> 30], [second |-> 1000, gap |-> 0]>> }

RankingInputs ==
    {Concat([g \in 1..3 |->
               << Tx(PairDescriptions[g], 1000, 0),
                  Tx(PairDescriptions[g], sh[g].second, sh[g].gap) >>]) :
        sh \in RankingShapes}

\* Bands family: two or three transactions of one merchant and one amount
\* whose gaps are taken from the edges of the interval bands.
BandGaps == {4, 5, 7, 9, 10, 24, 25, 30, 35, 36, 45,
             84, 85, 90, 95, 96, 349, 350, 365, 380, 381}

BandInputs ==
    {<<Tx(dGymRef, 1000, 0), Tx(dGymRef, 1000, g)>> : g \in BandGaps}
    \cup {<<Tx(dGymRef, 1000, 0), Tx(dGymRef, 1000, g[1]), Tx(dGymRef, 1000, g[1] + g[2])>> :
             g \in BandGaps \X BandGaps}

\* Reconciliation family: a few fixed transaction lists against every list
\* of up to MaxExisting existing subscriptions from a pool.
Existing(name, providerId) ==
    [name |-> name, providerId |-> providerId, price |-> Fraction(900, 1),
     currency |-> "EUR", interval |-> "yearly", category |-> "Other",
     startDate |-> 0, nextPaymentDate |-> 10, paymentMethod |-> "PayPal",
     active |-> TRUE, status |-> "active", noticePeriodDays |-> 30]

ExistingPool ==
    { Existing(<<"N","e","t","f","l","i","x">>, "netflix"),
      Existing(<<"N","e","t","f","l","i","x"," ","P","r","e","m","i","u","m">>, ""),
      Existing(<<"K","i","n","o">>, "netflix"),
      Existing(<<"G","Y","M">>, ""),
      Existing(<<"S","p","o","t","i","f","y">>, "spotify") }

\* the pool entries in a list, the i-th with id i
ExistingLists ==
    {[i \in 1..Len(l) |-> withId(l[i], i)] : l \in SeqsUpTo(ExistingPool, MaxExisting)}

ReconcileTransactions ==
    { <<Tx(dNetflix, 1000, 0), Tx(dNetflix, 1150, 30)>>,
      <<Tx(dGymPaypal, 1000, 0), Tx(dGymRef, 1000, 30)>>,
      <<Tx(dGymRef, 1000, 0), Tx(dNetflix, 1000, 7), Tx(dGymRef, 1000, 7), Tx(dNetflix, 1000, 14)>>,
      <<Tx(dConstructor, 1000, 0), Tx(dGymRef, 1000, 30)>> }

ReconcileInputs ==
    {[transactions |-> t, subscriptions |-> e] :
        t \in ReconcileTransactions, e \in ExistingLists}

\* Edge family: groups at the lower edge of the confidence: amounts that
\* differ by just under a fifth of their mean, two transactions any number
\* of days apart, or three with two of them on one day.
EdgeInputs ==
    {<<Tx(dGymRef, 1000, 0), Tx(dGymRef, 1210, g)>> : g \in {1, 3, 30, 200}}
    \cup {<<Tx(dGymRef, 1000, 0), Tx(dGymRef, 1210, g[1]), Tx(dGymRef, 1105, g[2])>> :
              g \in {<<0, 30>>, <<0, 1>>, <<30, 30>>, <<1, 400>>}}

Inputs ==
    {[transactions |-> t, subscriptions |-> <<>>] :
        t \in GateInputs \cup ExampleInputs \cup PairInputs \cup RankingInputs
                  \cup BandInputs \cup EdgeInputs}
    \cup ReconcileInputs

----------------------------------------------------------------------------
(* The Smart Import dialog.  The initial states are those right after the  *)
(* synchronous part of handleAnalyze (or of a PDF upload): the parsed       *)
(* transactions are stored, isAnalyzing is set and the analysis waits in a *)
(* timer whose closure holds the parsed list and the subscriptions.        *)

InitWith(inputs) ==
    \E in \in inputs :
        /\ transactions = in.transactions
        /\ subscriptions = in.subscriptions
        /\ candidates = <<>>
        /\ selectedCandidates = <<>>
        /\ ignoredCandidates = <<>>
        /\ step = "preview"
        /\ isAnalyzing = TRUE
        /\ timer = [pending |-> TRUE, parsed |-> in.transactions,
                    subscriptions |-> in.subscriptions]
        /\ importing = NotImporting
        /\ nextId = Len(in.subscriptions) + 1
        /\ noFile

\* The setTimeout callback of handleAnalyze / handleFileUpload.  If
\* analyzeImportedTransactions throws, the exception leaves the callback
\* before any state is set: the dialog keeps isAnalyzing = true.
Analyze ==
    /\ timer.pending
    /\ \E r \in {analyzeImportedTransactions(timer.parsed, timer.subscriptions)} :
           IF r.threw
           THEN UNCHANGED <<candidates, selectedCandidates, ignoredCandidates,
                            step, isAnalyzing>>
           ELSE \E found \in r.returns :
                    /\ candidates' = found
                    /\ selectedCandidates' = [i \in 1..Len(found) |-> i]
                    /\ ignoredCandidates' = <<>>
                    /\ step' = "results"
                    /\ isAnalyzing' = FALSE
    /\ timer' = NoTimer
    /\ UNCHANGED <<transactions, subscriptions, importing, nextId>>
    /\ UNCHANGED fileVars

InSeq(x, seq) == \E i \in 1..Len(seq) : seq[i] = x

\* The user edits the selection on the results step.  While a handleImport
\* call is in flight such edits are left out: the call reads the selection
\* of the render it was started in.
toggleCandidate(index) ==
    /\ step = "results"
    /\ ~importing.active
    /\ index \in 1..Len(candidates)
    /\ ~InSeq(index, ignoredCandidates)
    /\ selectedCandidates' =
           IF InSeq(index, selectedCandidates)
           THEN SelectSeq(selectedCandidates, LAMBDA i : i # index)
           ELSE Append(selectedCandidates, index)
    /\ UNCHANGED <<transactions, subscriptions, candidates, ignoredCandidates,
                   step, isAnalyzing, timer, importing, nextId>>
    /\ UNCHANGED fileVars

ignoreCandidate(index) ==
    /\ step = "results"
    /\ ~importing.active
    /\ index \in 1..Len(candidates)
    /\ ~InSeq(index, ignoredCandidates)
    /\ ignoredCandidates' = Append(ignoredCandidates, index)
    /\ selectedCandidates' = SelectSeq(selectedCandidates, LAMBDA i : i # index)
    /\ UNCHANGED <<transactions, subscriptions, candidates,
                   step, isAnalyzing, timer, importing, nextId>>
    /\ UNCHANGED fileVars

\* The click on Import: handleImport starts with the state of the current
\* render in its closure; user tells whether a user is logged in.
handleImportStart ==
    /\ step = "results"
    /\ ~importing.active
    /\ Len(selectedCandidates) > 0
    /\ \E user \in BOOLEAN :
           importing' = [active |-> TRUE, pos |-> 1, user |-> user,
                         candidates |-> candidates,
                         selectedCandidates |-> selectedCandidates,
                         ignoredCandidates |-> ignoredCandidates,
                         subscriptions |-> subscriptions,
                         imported |-> 0, updated |-> 0]
    /\ UNCHANGED <<transactions, subscriptions, candidates, selectedCandidates,
                   ignoredCandidates, step, isAnalyzing, timer, nextId>>
    /\ UNCHANGED fileVars

\* One iteration of the loop of handleImport, up to the end of its await.
handleImportStep ==
    /\ importing.active
    /\ importing.pos <= Len(importing.selectedCandidates)
    /\ LET index == importing.selectedCandidates[importing.pos]
           candidate == importing.candidates[index]
           existing == findExisting(importing.subscriptions, candidate)
       IN  IF InSeq(index, importing.ignoredCandidates)
           THEN /\ importing' = [importing EXCEPT !.pos = @ + 1]
                /\ UNCHANGED <<subscriptions, nextId>>
           ELSE IF existing > 0
           THEN \E ok \in BOOLEAN :
                    /\ subscriptions' =
                           updateSubscription(subscriptions, importing.subscriptions,
                               importing.subscriptions[existing].id,
                               [price |-> candidate.subscription.price,
                                nextPaymentDate |-> candidate.subscription.nextPaymentDate],
                               ok)
                    /\ importing' = [importing EXCEPT !.pos = @ + 1, !.updated = @ + 1]
                    /\ UNCHANGED nextId
           ELSE \E ok \in BOOLEAN :
                    /\ subscriptions' =
                           addSubscription(subscriptions, importing.subscriptions,
                               withId(candidate.subscription, nextId),
                               nextId, nextId + 1, importing.user, ok)
                    /\ importing' = [importing EXCEPT !.pos = @ + 1, !.imported = @ + 1]
                    /\ nextId' = nextId + 2
    /\ UNCHANGED <<transactions, candidates, selectedCandidates, ignoredCandidates,
                   step, isAnalyzing, timer>>
    /\ UNCHANGED fileVars

\* The end of handleImport: the toast, setOpen(false) and reset().
handleImportFinish ==
    /\ importing.active
    /\ importing.pos > Len(importing.selectedCandidates)
    /\ importing' = NotImporting
    /\ step' = "upload"
    /\ transactions' = <<>>
    /\ candidates' = <<>>
    /\ selectedCandidates' = <<>>
    /\ ignoredCandidates' = <<>>
    /\ UNCHANGED <<subscriptions, isAnalyzing, timer, nextId>>
    /\ UNCHANGED fileVars

\* The detector on every input of the families.
Init == InitWith(Inputs)

Next == Analyze

Spec == Init /\ [][Next]_vars

\* The dialog from the analysis to the end of the import, on the
\* reconciliation family.
InitDialog == InitWith(ReconcileInputs)

NextDialog ==
    \/ Analyze
    \/ \E index \in 1..Len(candidates) : toggleCandidate(index)
    \/ \E index \in 1..Len(candidates) : ignoreCandidate(index)
    \/ handleImportStart
    \/ handleImportStep
    \/ handleImportFinish

SpecDialog == InitDialog /\ [][NextDialog]_vars

----------------------------------------------------------------------------
(* The threshold step on its own.  For well-formed input the arithmetic of  *)
(* the detector gives no group that passed both gates a confidence below   *)
(* 42, so the comparison with 40 is exercised by giving a group that       *)
(* passed both gates every confidence from 0 to 100 (and NaN) and running  *)
(* the callback from the threshold on.                                     *)

ThresholdGroups ==
    { <<Tx(dGymRef, 1000, 0), Tx(dGymRef, 1000, 30)>>,
      <<Tx(dNetflix, 1000, 0), Tx(dNetflix, 1150, 30), Tx(dNetflix, 1000, 67)>> }

Confidences == {Num(c) : c \in 0..100} \cup {NaN}

InitThreshold ==
    \E group \in ThresholdGroups, confidence \in Confidences :
        /\ transactions = group
        /\ subscriptions = <<>>
        /\ candidates = <<>>
        /\ selectedCandidates = <<>>
        /\ ignoredCandidates = <<>>
        /\ step = "preview"
        /\ isAnalyzing = TRUE
        /\ timer = [pending |-> TRUE, parsed |-> group, subscriptions |-> <<>>,
                    confidence |-> confidence]
        /\ importing = NotImporting
        /\ nextId = 1
        /\ noFile

\* the callback from `if (confidence < 40) return` on, for the group in
\* timer.parsed (sorted by date) with the confidence in timer.confidence
Threshold ==
    /\ timer.pending
    /\ \E r \in {checkThreshold(merchantOf(timer.parsed[1]), timer.parsed,
                                [i \in 1..Len(timer.parsed) |-> Abs(timer.parsed[i].amount)],
                                detectInterval([i \in 1..Len(timer.parsed) |->
                                                   timer.parsed[i].date]),
                                timer.confidence, timer.subscriptions, 0)} :
           /\ candidates' = IF r.emit THEN <<r.candidate>> ELSE <<>>
           /\ selectedCandidates' = IF r.emit THEN <<1>> ELSE <<>>
    /\ ignoredCandidates' = <<>>
    /\ step' = "results"
    /\ isAnalyzing' = FALSE
    /\ timer' = [timer EXCEPT !.pending = FALSE]
    /\ UNCHANGED <<transactions, subscriptions, importing, nextId>>
    /\ UNCHANGED fileVars

NextThreshold == Threshold

SpecThreshold == InitThreshold /\ [][NextThreshold]_vars

----------------------------------------------------------------------------
(* The CSV upload: detectColumns, parseCSVRow and handleAnalyze.  A row of  *)
(* the parsed file is a function from the header names to the cell texts;  *)
(* an undefined cell and an empty cell are both the empty string (the code *)
(* treats them alike: the row is dropped).  A ParsedTransaction keeps the  *)
(* text of its date cell in dateText; its date is the day number that     *)
(* `new Date(text)` gives.                                                 *)

\* the alternatives of the four header patterns, all of the form /^(...)$/i
ColumnPatterns ==
    [date |-> {<<"d","a","t","e">>, <<"d","a","t","u","m">>, <<"b","u","c","h","u","n","g","s","t","a","g">>, <<"v","a","l","u","t","a","d","a","t","u","m">>,
               <<"t","r","a","n","s","a","c","t","i","o","n"," ","d","a","t","e">>},
     description |-> {<<"d","e","s","c","r","i","p","t","i","o","n">>, <<"v","e","r","w","e","n","d","u","n","g","s","z","w","e","c","k">>, <<"m","e","r","c","h","a","n","t">>,
                      <<"p","a","y","e","e">>, <<"r","e","c","i","p","i","e","n","t">>, <<"e","m","p","f","ä","n","g","e","r">>, <<"b","u","c","h","u","n","g","s","t","e","x","t">>},
     amount |-> {<<"a","m","o","u","n","t">>, <<"b","e","t","r","a","g">>, <<"v","a","l","u","e">>, <<"w","e","r","t">>, <<"s","u","m">>, <<"s","u","m","m","e">>},
     currency |-> {<<"c","u","r","r","e","n","c","y">>, <<"w","ä","h","r","u","n","g">>, <<"c","c","y">>}]

\* the variant that takes a header that contains a name
findContaining(headers, names) ==
    LET hits == {i \in 1..Len(headers) :
                    \E n \in names : includes(toLowerCase(headers[i]), n)}
    IN  IF hits = {} THEN <<>>
        ELSE headers[CHOOSE i \in hits : \A j \in hits : i <= j]

\* headers.find(h => pattern.test(h)); the empty string for undefined
findHeader(headers, names) ==
    LET hits == {i \in 1..Len(headers) : toLowerCase(headers[i]) \in names}
    IN  IF hits = {} THEN <<>>
        ELSE headers[CHOOSE i \in hits : \A j \in hits : i <= j]

\* detectColumns(headers); a column that was not found is the empty string
detectColumns(headers) ==
    [c \in DOMAIN ColumnPatterns |-> findHeader(headers, ColumnPatterns[c])]

\* a variant of the filter that also removes the decimal comma
keepDigitsAndPoint(s) == SelectSeq(s, LAMBDA c : IsDigit(c) \/ c \in {".", "-"})

\* amount.replace(/[^0-9.,-]/g, '')
keepAmountChars(s) == SelectSeq(s, LAMBDA c : IsDigit(c) \/ c \in {".", ",", "-"})

\* the variant that leaves the comma
keepComma(s, a, b) == s

\* s.replace(a, b) for one-character strings a and b: the first a becomes b
replaceFirst(s, a, b) ==
    LET hits == {i \in 1..Len(s) : s[i] = a}
    IN  IF hits = {} THEN s
        ELSE [s EXCEPT ![CHOOSE i \in hits : \A j \in hits : i <= j] = b]

RECURSIVE Pow10(_)
Pow10(k) == IF k = 0 THEN 1 ELSE 10 * Pow10(k - 1)

\* parseFloat(s): the longest prefix of s, after leading white space, that
\* is a decimal literal (sign, digits, '.', digits), as the exact decimal
\* num / den; NaN if there is none.  (No string of the model continues
\* such a prefix with an exponent.)
parseFloat(s) ==
    LET t == IF Len(trim(s)) = 0 THEN <<>>
             ELSE SubSeq(s, CHOOSE i \in 1..Len(s) : /\ ~IsSpace(s[i])
                                                     /\ \A j \in 1..(i - 1) : IsSpace(s[j]),
                         Len(s))
        start == IF Len(t) > 0 /\ t[1] \in {"-", "+"} THEN 2 ELSE 1
        intEnd == DigitRunEnd(t, start)
        fracEnd == IF intEnd <= Len(t) /\ t[intEnd] = "."
                   THEN DigitRunEnd(t, intEnd + 1) ELSE intEnd
        digits == SubSeq(t, start, intEnd - 1) \o SubSeq(t, intEnd + 1, fracEnd - 1)
    IN  IF Len(digits) = 0 THEN [nan |-> TRUE, num |-> 0, den |-> 1]
        ELSE [nan |-> FALSE,
              num |-> (IF t[1] = "-" THEN -1 ELSE 1) * ToNumber(digits),
              den |-> Pow10(IF fracEnd > intEnd THEN fracEnd - intEnd - 1 ELSE 0)]

\* n.toString().padStart(w, '0') for 0 <= n < 10^w
decimal(n, w) ==
    [i \in 1..w |-> <<"0","1","2","3","4","5","6","7","8","9">>[((n \div Pow10(w - i)) % 10) + 1]]

\* the text YYYY-MM-DD of a date
isoText(y, m, d) == decimal(y, 4) \o <<"-">> \o decimal(m, 2) \o <<"-">> \o decimal(d, 2)

\* the days from 1970-01-01 to the day d of month m of year y
dayNumber(y, m, d) ==
    LET yy == IF m <= 2 THEN y - 1 ELSE y
        yoe == yy % 400
        doy == (153 * (IF m > 2 THEN m - 3 ELSE m + 9) + 2) \div 5 + d - 1
    IN  (yy \div 400) * 146097 + yoe * 365 + yoe \div 4 - yoe \div 100 + doy - 719468

\* the number of days of month m of year y
daysInMonth(y, m) ==
    IF m = 2 THEN (IF y % 4 = 0 /\ (y % 100 # 0 \/ y % 400 = 0) THEN 29 ELSE 28)
    ELSE IF m \in {4, 6, 9, 11} THEN 30 ELSE 31

\* new Date(text).getTime() in days.  A text YYYY-MM-DD is read as that day
\* (UTC); the other date texts of the model ('31.01.2024', 'n/a', texts that
\* normalizeDate leaves as they are) are texts no engine reads as a date.
dateValue(text) ==
    IF /\ Len(text) = 10
       /\ \A i \in 1..10 : IF i \in {5, 8} THEN text[i] = "-" ELSE IsDigit(text[i])
       /\ ToNumber(SubSeq(text, 6, 7)) \in 1..12
       /\ ToNumber(SubSeq(text, 9, 10)) \in
              1..daysInMonth(ToNumber(SubSeq(text, 1, 4)), ToNumber(SubSeq(text, 6, 7)))
    THEN dayNumber(ToNumber(SubSeq(text, 1, 4)), ToNumber(SubSeq(text, 6, 7)),
                   ToNumber(SubSeq(text, 9, 10)))
    ELSE InvalidDate

\* row[col]
cellOf(row, col) == IF col \in DOMAIN row THEN row[col] ELSE <<>>

\* the ParsedTransaction of a date text, a description and an amount; the
\* detector's amounts are whole cents (the amounts of the model have at
\* most two decimals)
ParsedTransaction(date, description, amount, currency) ==
    [date |-> dateValue(date), dateText |-> date, description |-> description,
     amount |-> (100 * amount.num) \div amount.den, currency |-> currency]

\* parseCSVRow(row, columnMapping): the empty list for null, otherwise the
\* list of the one transaction.  `columnMapping.date || 'date' || ...` is
\* the mapped column or 'date'.
parseCSVRow(row, columnMapping) ==
    LET col(c, default) == IF columnMapping[c] # <<>> THEN columnMapping[c] ELSE default
        date == cellOf(row, col("date", <<"d","a","t","e">>))
        description == cellOf(row, col("description", <<"d","e","s","c","r","i","p","t","i","o","n">>))
        currency == cellOf(row, col("currency", <<"c","u","r","r","e","n","c","y">>))
        amount == parseFloat(replaceFirst(
                      keepAmountChars(cellOf(row, col("amount", <<"a","m","o","u","n","t">>))), ",", "."))
    IN  IF date = <<>> \/ description = <<>> \/ amount.nan THEN <<>>
        ELSE <<ParsedTransaction(date, description, amount,
                                 IF currency = <<>> THEN "EUR" ELSE currency)>>

MaxRows == 3      \* most rows of a CSV file of the rows family

\* the row { [fields[1]]: cells[1], ... } that Papa.parse makes of a line
rowOf(fields, cells) ==
    [h \in {fields[i] : i \in 1..Len(fields)} |->
        cells[CHOOSE i \in 1..Len(fields) : fields[i] = h]]

CsvFields ==
    { << <<"D","a","t","u","m">>, <<"V","e","r","w","e","n","d","u","n","g","s","z","w","e","c","k">>, <<"B","e","t","r","a","g">> >>,
      << <<"d","a","t","e">>, <<"d","e","s","c","r","i","p","t","i","o","n">>, <<"a","m","o","u","n","t">> >>,
      << <<"B","u","c","h","u","n","g","s","t","a","g">>, <<"T","e","x","t">>, <<"B","e","t","r","a","g">> >> }

\* Rows family: the cells (date, description, amount) of a line
CsvCells ==
    { << <<"2","0","2","4","-","0","1","-","0","1">>, <<"S","p","o","t","i","f","y">>, <<"9",",","9","9">> >>,
      << <<"2","0","2","4","-","0","2","-","0","1">>, <<"S","p","o","t","i","f","y">>, <<"9",",","9","9">> >>,
      << <<"3","1",".","0","1",".","2","0","2","4">>, <<"S","p","o","t","i","f","y">>, <<"9",",","9","9">> >>,
      << <<"n","/","a">>, <<"S","p","o","t","i","f","y">>, <<"9",",","9","9">> >>,
      << <<"2","0","2","4","-","0","2","-","0","1">>, <<>>, <<"9",",","9","9">> >>,
      << <<"2","0","2","4","-","0","2","-","0","1">>, <<"S","p","o","t","i","f","y">>, <<>> >>,
      << <<"2","0","2","4","-","0","3","-","0","1">>, <<"F","i","t","n","e","s","s"," ","C","l","u","b">>, <<"-","1","2",",","5","0"," ","E","U","R">> >>,
      << <<"2","0","2","4","-","0","3","-","1","5">>, <<"F","i","t","n","e","s","s"," ","C","l","u","b">>, <<"1","2",".","5","0">> >> }

\* every file of up to MaxRows lines of the rows family under each header line
RowsFiles ==
    {[fields |-> f, rows |-> [i \in 1..Len(l) |-> rowOf(f, l[i])]] :
        f \in CsvFields, l \in SeqsUpTo(CsvCells, MaxRows)}

\* Scenario family: header Datum,Verwendungszweck,Betrag and three lines for
\* Spotify at 9,99 on the first of three consecutive months, starting in any
\* month of 2023 and 2024, the lines in any order.
ScenarioFiles ==
    {[fields |-> << <<"D","a","t","u","m">>, <<"V","e","r","w","e","n","d","u","n","g","s","z","w","e","c","k">>, <<"B","e","t","r","a","g">> >>,
      rows |-> [i \in 1..3 |->
                  rowOf(<< <<"D","a","t","u","m">>, <<"V","e","r","w","e","n","d","u","n","g","s","z","w","e","c","k">>, <<"B","e","t","r","a","g">> >>,
                        << isoText(2023 + (first + o[i]) \div 12, ((first + o[i]) % 12) + 1, 1),
                           <<"S","p","o","t","i","f","y">>, <<"9",",","9","9">> >>)]] :
        first \in 0..23,
        o \in {p \in [1..3 -> 0..2] : \A a, b \in 1..3 : a # b => p[a] # p[b]}}

\* The initial states of a CSV upload: handleFileUpload has set isAnalyzing
\* and Papa.parse is reading the file.
InitCsv ==
    \E file \in RowsFiles \cup ScenarioFiles :
        /\ transactions = <<>>
        /\ subscriptions = <<>>
        /\ candidates = <<>>
        /\ selectedCandidates = <<>>
        /\ ignoredCandidates = <<>>
        /\ step = "upload"
        /\ isAnalyzing = TRUE
        /\ timer = NoTimer
        /\ importing = NotImporting
        /\ nextId = 1
        /\ csv = [NoCsv EXCEPT !.parsing = TRUE, !.fields = file.fields, !.rows = file.rows]
        /\ pdf = NoPdf
        /\ call = NoCall

\* the `complete` callback of Papa.parse in handleFileUpload
complete ==
    /\ csv.parsing
    /\ IF Len(csv.rows) = 0
       THEN /\ csv' = [csv EXCEPT !.parsing = FALSE]
            /\ UNCHANGED step
       ELSE \E detected \in {detectColumns(csv.fields)} :
                /\ csv' = [csv EXCEPT !.parsing = FALSE, !.headers = csv.fields,
                                      !.data = csv.rows, !.columnMapping = detected]
                /\ step' = IF /\ detected.date # <<>>
                              /\ detected.description # <<>>
                              /\ detected.amount # <<>>
                           THEN "preview" ELSE "mapping"
    /\ isAnalyzing' = FALSE
    /\ UNCHANGED <<transactions, subscriptions, candidates, selectedCandidates,
                   ignoredCandidates, timer, importing, nextId, pdf, call>>

\* handleAnalyze, the click on Analyze of the preview step, up to setTimeout
handleAnalyze ==
    /\ step = "preview"
    /\ ~isAnalyzing
    /\ \E parsed \in {Concat([i \in 1..Len(csv.data) |->
                                 parseCSVRow(csv.data[i], csv.columnMapping)])} :
           IF Len(parsed) = 0
           THEN UNCHANGED <<transactions, isAnalyzing, timer>>
           ELSE /\ transactions' = parsed
                /\ isAnalyzing' = TRUE
                /\ timer' = [pending |-> TRUE, parsed |-> parsed,
                             subscriptions |-> subscriptions]
    /\ UNCHANGED <<subscriptions, candidates, selectedCandidates, ignoredCandidates,
                   step, importing, nextId, fileVars>>

NextCsv == complete \/ handleAnalyze \/ Analyze

SpecCsv == InitCsv /\ [][NextCsv]_vars

----------------------------------------------------------------------------
(* The PDF line extractor: normalizeDate.  The alphabet of the model has   *)
(* the umlaut of the month name only in lower case.                        *)

\* the alternatives of the month group, in lower case (the expressions have
\* the i flag); monthNames maps the k-th name to the two digits of k
MonthNames ==
    << <<"j","a","n","u","a","r">>, <<"f","e","b","r","u","a","r">>, <<"m","ä","r","z">>, <<"a","p","r","i","l">>, <<"m","a","i">>, <<"j","u","n","i">>, <<"j","u","l","i">>,
       <<"a","u","g","u","s","t">>, <<"s","e","p","t","e","m","b","e","r">>, <<"o","k","t","o","b","e","r">>, <<"n","o","v","e","m","b","e","r">>, <<"d","e","z","e","m","b","e","r">> >>

\* the smallest element of a set of positions, 0 if there is none
firstOf(S) == IF S = {} THEN 0 ELSE CHOOSE i \in S : \A j \in S : i <= j

\* the end of the maximal run of characters of `chars` that starts at i
RECURSIVE RunEnd(_, _, _)
RunEnd(s, i, chars) ==
    IF i <= Len(s) /\ s[i] \in chars THEN RunEnd(s, i + 1, chars) ELSE i

\* the k-th month name stands in s at position i, in any case
monthAt(s, i, k) ==
    /\ i + Len(MonthNames[k]) - 1 <= Len(s)
    /\ toLowerCase(SubSeq(s, i, i + Len(MonthNames[k]) - 1)) = MonthNames[k]

\* the rest of a match of the long form, from the month name at position j
\* on: /(Januar|...|Dezember)\s+(\d{4})/ and, with bounded, a final \b
germanDateFrom(s, i, day, j, m, bounded) ==
    IF m = 0 THEN [found |-> FALSE]
    ELSE LET y == RunEnd(s, j + Len(MonthNames[m]), {" ", "\t"})
         IN  IF /\ y > j + Len(MonthNames[m])
                /\ DigitRunEnd(s, y) >= y + 4
                /\ (bounded => DigitRunEnd(s, y) = y + 4
                                  /\ (y + 4 > Len(s) \/ ~IsWordChar(s[y + 4])))
             THEN [found |-> TRUE, next |-> y + 4, day |-> day, month |-> m,
                   year |-> SubSeq(s, y, y + 3)]
             ELSE [found |-> FALSE]

\* a match of /(\d{1,2})[.\s]+(Januar|...|Dezember)\s+(\d{4})/i that starts
\* at position i; with bounded, of the same between two \b.  Position 0
\* stands for no position.
germanDateAt(s, i, bounded) ==
    LET d == IF i < 1 THEN i ELSE DigitRunEnd(s, i)
        j == RunEnd(s, d, {".", " ", "\t"})
    IN  IF /\ d - i \in {1, 2}
           /\ j > d
           /\ (bounded => i = 1 \/ ~IsWordChar(s[i - 1]))
        THEN germanDateFrom(s, i, SubSeq(s, i, d - 1), j,
                            firstOf({k \in 1..12 : monthAt(s, j, k)}), bounded)
        ELSE [found |-> FALSE]

\* three runs of digits with one of . / - after the first and the second,
\* starting at position i
dateRunsAt(s, i) ==
    LET e1 == DigitRunEnd(s, i)
        e2 == IF e1 > i /\ e1 < Len(s) /\ s[e1] \in {".", "/", "-"}
              THEN DigitRunEnd(s, e1 + 1) ELSE 0
        e3 == IF e2 > e1 + 1 /\ e2 < Len(s) /\ s[e2] \in {".", "/", "-"}
              THEN DigitRunEnd(s, e2 + 1) ELSE 0
    IN  IF e3 > e2 + 1
        THEN [found |-> TRUE, next |-> e3, a |-> SubSeq(s, i, e1 - 1),
              b |-> SubSeq(s, e1 + 1, e2 - 1), c |-> SubSeq(s, e2 + 1, e3 - 1)]
        ELSE [found |-> FALSE]

\* a variant of the padding that leaves the text as it is
padNone(s) == s

\* s.padStart(2, '0')
padStart(s) == IF Len(s) < 2 THEN [i \in 1..(2 - Len(s)) |-> "0"] \o s ELSE s

\* a variant of the pivot that also puts the year 50 in the 1900s
fullYearFrom50(year) ==
    IF ToNumber(year) >= 50 THEN <<"1", "9">> \o year ELSE <<"2", "0">> \o year

\* parseInt(year) > 50 ? `19${year}` : `20${year}`
fullYear(year) ==
    IF ToNumber(year) > 50 THEN <<"1", "9">> \o year ELSE <<"2", "0">> \o year

\* `${year}-${month}-${day}`
dashed(year, month, day) == year \o <<"-">> \o month \o <<"-">> \o day

\* the numeric formats of normalizeDate, for a text of three runs of digits
normalizeNumeric(dateStr, a, b, c) ==
    IF Len(a) <= 2 /\ Len(b) <= 2 /\ Len(c) = 4
    THEN dashed(c, padStart(b), padStart(a))
    ELSE IF Len(a) <= 2 /\ Len(b) <= 2 /\ Len(c) = 2
    THEN dashed(fullYear(c), padStart(b), padStart(a))
    ELSE IF Len(a) = 4 /\ Len(b) <= 2 /\ Len(c) <= 2
    THEN dashed(a, padStart(b), padStart(c))
    ELSE dateStr

\* normalizeDate, given the first match of the long form and the runs of
\* digits of the whole text
normalizeMatched(dateStr, german, runs) ==
    IF german.found
    THEN dashed(german.year, decimal(german.month, 2), padStart(german.day))
    ELSE IF runs.found /\ runs.next = Len(dateStr) + 1
    THEN normalizeNumeric(dateStr, runs.a, runs.b, runs.c)
    ELSE dateStr

normalizeDate(dateStr) ==
    normalizeMatched(dateStr,
        germanDateAt(dateStr,
                     firstOf({i \in 1..Len(dateStr) : germanDateAt(dateStr, i, FALSE).found}),
                     FALSE),
        dateRunsAt(dateStr, 1))

----------------------------------------------------------------------------
(* The PDF line extractor: extractTransactionsFromPDFText.  A regular      *)
(* expression of the extractor is a record; matchEnd gives the end of its  *)
(* match at a position as the matcher finds it, backtracking included.     *)

\* the variant that tries the numeric form first
numericFirst == << [kind |-> "numeric"], [kind |-> "german"], [kind |-> "iso"] >>

\* datePatterns: the long form, the numeric form and the form with the
\* year first, each between two \b
datePatterns == << [kind |-> "german"], [kind |-> "numeric"], [kind |-> "iso"] >>

\* amountPatterns: the amount before and after EUR or the euro sign, in
\* German notation, and before and after USD or the dollar sign, in US
\* notation
amountPatterns ==
    << [kind |-> "amount", symbolFirst |-> FALSE, group |-> {"."}, dec |-> {","},
        words |-> << <<"e","u","r">>, <<"€">> >>],
       [kind |-> "amount", symbolFirst |-> TRUE, group |-> {"."}, dec |-> {","},
        words |-> << <<"e","u","r">>, <<"€">> >>],
       [kind |-> "amount", symbolFirst |-> FALSE, group |-> {","}, dec |-> {"."},
        words |-> << <<"u","s","d">>, <<"$">> >>],
       [kind |-> "amount", symbolFirst |-> TRUE, group |-> {","}, dec |-> {"."},
        words |-> << <<"u","s","d">>, <<"$">> >>] >>

\* /\d{1,3}(?:[.,]\d{3})*[.,]\d{2}/, the amount removed from the description
anyAmount == [kind |-> "number", group |-> {".", ","}, dec |-> {".", ","}]

\* /EUR|€|USD|\$|GBP|£|CHF/gi
currencyWords ==
    [kind |-> "words", bounded |-> FALSE,
     words |-> << <<"e","u","r">>, <<"€">>, <<"u","s","d">>, <<"$">>, <<"g","b","p">>, <<"£">>, <<"c","h","f">> >>]

\* /\b(invoice|rechnung|bill|from|von)\b/i and /\b(total|gesamt|summe)\b/i
merchantWords ==
    [kind |-> "words", bounded |-> TRUE,
     words |-> << <<"i","n","v","o","i","c","e">>, <<"r","e","c","h","n","u","n","g">>, <<"b","i","l","l">>, <<"f","r","o","m">>, <<"v","o","n">> >>]

totalWords ==
    [kind |-> "words", bounded |-> TRUE,
     words |-> << <<"t","o","t","a","l">>, <<"g","e","s","a","m","t">>, <<"s","u","m","m","e">> >>]

\* (?:[.,]\d{3})*[.,]\d{2} from position j on: groups of three digits as
\* long as the rest still matches, then the two decimals; 0 for no match
RECURSIVE amountTail(_, _, _, _)
amountTail(s, j, group, dec) ==
    IF j > Len(s) THEN 0
    ELSE LET grouped == IF s[j] \in group /\ DigitRunEnd(s, j + 1) >= j + 4
                        THEN amountTail(s, j + 4, group, dec) ELSE 0
         IN  IF grouped > 0 THEN grouped
             ELSE IF s[j] \in dec /\ DigitRunEnd(s, j + 1) >= j + 3 THEN j + 3
             ELSE 0

\* \d{1,3}(?:[.,]\d{3})*[.,]\d{2} at position i
numberEnd(s, i, group, dec) ==
    IF i >= 1 /\ DigitRunEnd(s, i) - i \in 1..3
    THEN amountTail(s, DigitRunEnd(s, i), group, dec) ELSE 0

\* an alternative of words, in any case, at position i (no word of the
\* model is the beginning of another); with bounded, between two \b
wordsEnd(s, i, words, bounded) ==
    LET hits == {k \in 1..Len(words) :
                    /\ i >= 1
                    /\ i + Len(words[k]) - 1 <= Len(s)
                    /\ toLowerCase(SubSeq(s, i, i + Len(words[k]) - 1)) = words[k]
                    /\ bounded => /\ (i = 1 \/ ~IsWordChar(s[i - 1]))
                                  /\ (i + Len(words[k]) > Len(s)
                                         \/ ~IsWordChar(s[i + Len(words[k])]))}
    IN  IF hits = {} THEN 0 ELSE i + Len(words[firstOf(hits)])

\* the numeric date patterns at position i
datePatternEnd(s, i, runs, iso) ==
    IF /\ runs.found
       /\ (i = 1 \/ ~IsWordChar(s[i - 1]))
       /\ (runs.next > Len(s) \/ ~IsWordChar(s[runs.next]))
       /\ IF iso THEN Len(runs.a) = 4 /\ Len(runs.b) <= 2 /\ Len(runs.c) <= 2
          ELSE Len(runs.a) <= 2 /\ Len(runs.b) <= 2 /\ Len(runs.c) \in 2..4
    THEN runs.next ELSE 0

\* an amount pattern at position i: number, \s*, symbol or symbol, \s*, number
amountPatternEnd(s, i, p) ==
    IF p.symbolFirst
    THEN IF wordsEnd(s, i, p.words, FALSE) = 0 THEN 0
         ELSE numberEnd(s, RunEnd(s, wordsEnd(s, i, p.words, FALSE), {" ", "\t"}),
                        p.group, p.dec)
    ELSE IF numberEnd(s, i, p.group, p.dec) = 0 THEN 0
         ELSE wordsEnd(s, RunEnd(s, numberEnd(s, i, p.group, p.dec), {" ", "\t"}),
                       p.words, FALSE)

\* the end (exclusive) of the match of pattern p that starts at position i
\* of s; 0 if there is none
matchEnd(s, i, p) ==
    CASE p.kind = "german" ->
             IF germanDateAt(s, i, TRUE).found THEN germanDateAt(s, i, TRUE).next ELSE 0
      [] p.kind = "numeric" -> datePatternEnd(s, i, dateRunsAt(s, i), FALSE)
      [] p.kind = "iso" -> datePatternEnd(s, i, dateRunsAt(s, i), TRUE)
      [] p.kind = "number" -> numberEnd(s, i, p.group, p.dec)
      [] p.kind = "amount" -> amountPatternEnd(s, i, p)
      [] p.kind = "words" -> wordsEnd(s, i, p.words, p.bounded)

\* the start of the first match of p in s from position `from` on, 0 if none
firstMatch(s, from, p) ==
    firstOf({i \in from..Len(s) : matchEnd(s, i, p) > 0})

\* s.match(p) for an expression with the g flag: the texts of the first and,
\* if there is one, of the second match (the empty list stands for null)
matchesOf(s, p) ==
    LET m1 == firstMatch(s, 1, p)
        m2 == firstMatch(s, matchEnd(s, m1, p), p)
    IN  IF m1 = 0 THEN <<>>
        ELSE IF m2 = 0 THEN <<SubSeq(s, m1, matchEnd(s, m1, p) - 1)>>
        ELSE <<SubSeq(s, m1, matchEnd(s, m1, p) - 1),
               SubSeq(s, m2, matchEnd(s, m2, p) - 1)>>

\* s.replace(p, '') for an expression with the g flag
RECURSIVE removeMatches(_, _, _)
removeMatches(s, i, p) ==
    IF i > Len(s) THEN <<>>
    ELSE IF matchEnd(s, i, p) > 0 THEN removeMatches(s, matchEnd(s, i, p), p)
    ELSE <<s[i]>> \o removeMatches(s, i + 1, p)

\* the positions of the line feeds of text, with the positions before its
\* first and after its last character
lineBreaks(text) ==
    {0, Len(text) + 1} \cup {i \in 1..Len(text) : text[i] = "\n"}

\* text.split('\n')[k - 1]: the piece between the k-th break and the next
pieceAt(text, breaks, k) ==
    SubSeq(text,
           (CHOOSE b \in breaks : Cardinality({c \in breaks : c < b}) = k - 1) + 1,
           (CHOOSE b \in breaks : Cardinality({c \in breaks : c < b}) = k) - 1)

\* text.split('\n').map(line => line.trim())
trimmedLines(text, breaks) ==
    [k \in 1..(Cardinality(breaks) - 1) |-> trim(pieceAt(text, breaks, k))]

\* lines: text.split('\n').map(line => line.trim()).filter(line => line.length > 0)
linesOf(text) ==
    SelectSeq(trimmedLines(text, lineBreaks(text)), LAMBDA line : Len(line) > 0)

\* foundDate: normalizeDate of the first match of the first date pattern
\* that matches the line; the empty text if none does
foundDateOf(line) ==
    LET hits == {k \in 1..Len(datePatterns) : firstMatch(line, 1, datePatterns[k]) > 0}
    IN  IF hits = {} THEN <<>>
        ELSE normalizeDate(matchesOf(line, datePatterns[firstOf(hits)])[1])

\* amountStr = match[1] || match[0] of the list of all matches: the second
\* match if there are two, the whole first match otherwise
amountStrOf(match) == IF Len(match) > 1 THEN match[2] ELSE match[1]

\* foundAmount: parseFloat of amountStr without its points and with its
\* first comma as the point, for the first amount pattern that matches
foundAmountOf(line) ==
    LET hits == {k \in 1..Len(amountPatterns) : firstMatch(line, 1, amountPatterns[k]) > 0}
    IN  IF hits = {} THEN [nan |-> FALSE, num |-> 0, den |-> 1]
        ELSE parseFloat(replaceFirst(
                 SelectSeq(amountStrOf(matchesOf(line, amountPatterns[firstOf(hits)])),
                           LAMBDA c : c # "."),
                 ",", "."))

\* foundCurrency
foundCurrencyOf(line) ==
    IF includes(line, <<"U","S","D">>) \/ includes(line, <<"$">>) THEN "USD"
    ELSE IF includes(line, <<"G","B","P">>) \/ includes(line, <<"£">>) THEN "GBP"
    ELSE IF includes(line, <<"C","H","F">>) THEN "CHF"
    ELSE "EUR"

\* description: the line without its dates, amounts and currency words
ownDescription(line) ==
    trim(removeMatches(
         removeMatches(
         removeMatches(
         removeMatches(
         removeMatches(line, 1, datePatterns[1]), 1, datePatterns[2]), 1, datePatterns[3]),
                       1, anyAmount), 1, currencyWords))

\* the description taken from the line before when the line has none
surroundingDescription(prevLine, nextLine) ==
    IF firstMatch(prevLine, 1, merchantWords) > 0
    THEN trim(removeMatches(prevLine, 1, merchantWords))
    ELSE IF firstMatch(nextLine, 1, totalWords) > 0 THEN trim(prevLine)
    ELSE <<>>

\* transactions.push({...}) if description.length > 2
ExtractedTransaction(line, foundDate, foundAmount, description) ==
    IF Len(description) > 2
    THEN <<[date |-> foundDate, description |-> description, amount |-> foundAmount,
            currency |-> foundCurrencyOf(line), raw |-> line]>>
    ELSE <<>>

\* the loop body from the description on
describeLine(lines, i, foundDate, foundAmount, description) ==
    IF description # <<>>
    THEN ExtractedTransaction(lines[i], foundDate, foundAmount, description)
    ELSE ExtractedTransaction(lines[i], foundDate, foundAmount,
             surroundingDescription(IF i > 1 THEN lines[i - 1] ELSE <<>>,
                                    IF i + 1 <= Len(lines) THEN lines[i + 1] ELSE <<>>))

\* the loop body from the amount on
amountOfLine(lines, i, foundDate, foundAmount) ==
    IF foundAmount.nan \/ foundAmount.num = 0 THEN <<>>
    ELSE describeLine(lines, i, foundDate, foundAmount, ownDescription(lines[i]))

\* the loop body: the transactions line i adds, none or one
extractLine(lines, i) ==
    IF foundDateOf(lines[i]) = <<>> THEN <<>>
    ELSE amountOfLine(lines, i, foundDateOf(lines[i]), foundAmountOf(lines[i]))

extractLines(lines) == Concat([i \in 1..Len(lines) |-> extractLine(lines, i)])

extractTransactionsFromPDFText(text) == extractLines(linesOf(text))

\* Dates family: a day, a month and a year written in each supported
\* format: the long form (day, '.', ' ' or '. ', month name, year), day
\* first with a year of four or of two digits, and year first, the numeric
\* forms with every pair of separators, day and month with and without a
\* leading zero.
DateShapes ==
    {[format |-> f, day |-> d, month |-> m, year |-> y, sep1 |-> s1, sep2 |-> s2,
      padded |-> p] :
        f \in {"dmy4", "iso"}, d \in {1, 9, 19, 31}, m \in {1, 3, 12},
        y \in {1950, 2024}, s1 \in {".", "/", "-"}, s2 \in {".", "/", "-"},
        p \in BOOLEAN}
    \cup
    {[format |-> "dmy2", day |-> d, month |-> m, year |-> y, sep1 |-> s1, sep2 |-> s2,
      padded |-> p] :
        d \in {1, 9, 19, 31}, m \in {1, 3, 12}, y \in {0, 24, 49, 50, 51, 99},
        s1 \in {".", "/", "-"}, s2 \in {".", "/", "-"}, p \in BOOLEAN}
    \cup
    {[format |-> "german", day |-> d, month |-> m, year |-> y, sep1 |-> s1, sep2 |-> " ",
      padded |-> p] :
        d \in {1, 9, 19, 31}, m \in {1, 3, 12}, y \in {1999, 2025},
        s1 \in {".", " ", ". "}, p \in BOOLEAN}

\* the text of a date of the family
dateTextOf(sh) ==
    LET day == IF sh.padded \/ sh.day > 9 THEN decimal(sh.day, 2) ELSE decimal(sh.day, 1)
        month == IF sh.padded \/ sh.month > 9 THEN decimal(sh.month, 2)
                 ELSE decimal(sh.month, 1)
    IN  CASE sh.format = "german" ->
                 day \o (IF sh.sep1 = ". " THEN <<".", " ">> ELSE <<sh.sep1>>)
                     \o capitalize(MonthNames[sh.month]) \o <<" ">> \o decimal(sh.year, 4)
          [] sh.format = "dmy4" ->
                 day \o <<sh.sep1>> \o month \o <<sh.sep2>> \o decimal(sh.year, 4)
          [] sh.format = "dmy2" ->
                 day \o <<sh.sep1>> \o month \o <<sh.sep2>> \o decimal(sh.year, 2)
          [] sh.format = "iso" ->
                 decimal(sh.year, 4) \o <<sh.sep1>> \o month \o <<sh.sep2>> \o day

\* normalizeDate on its own: a call with a date of the family
InitDate ==
    \E sh \in DateShapes :
        /\ transactions = <<>>
        /\ subscriptions = <<>>
        /\ candidates = <<>>
        /\ selectedCandidates = <<>>
        /\ ignoredCandidates = <<>>
        /\ step = "upload"
        /\ isAnalyzing = FALSE
        /\ timer = NoTimer
        /\ importing = NotImporting
        /\ nextId = 1
        /\ csv = NoCsv
        /\ pdf = NoPdf
        /\ call = [returned |-> FALSE, shape |-> sh, arg |-> dateTextOf(sh), result |-> <<>>]

callNormalizeDate ==
    /\ ~call.returned
    /\ call' = [call EXCEPT !.returned = TRUE, !.result = normalizeDate(call.arg)]
    /\ UNCHANGED <<transactions, subscriptions, candidates, selectedCandidates,
                   ignoredCandidates, step, isAnalyzing, timer, importing, nextId,
                   csv, pdf>>

NextDate == callNormalizeDate

SpecDate == InitDate /\ [][NextDate]_vars

MaxDates == 2     \* most dates in a line of the lines family

\* Lines family: a line of a statement made of up to MaxDates different
\* dates, a description and an amount, between a line before and a line
\* after.  A date is its pattern and its text; an amount is its text and
\* the values written in it, in cents.
LineDates ==
    {[kind |-> "german", text |-> <<"1","9","."," ","D","e","z","e","m","b","e","r"," ","2","0","2","5">>],
     [kind |-> "german", text |-> <<"3"," ","M","ä","r","z"," ","2","0","2","4">>],
     [kind |-> "numeric", text |-> <<"0","1",".","0","2",".","2","0","2","4">>],
     [kind |-> "numeric", text |-> <<"1","/","2","/","2","4">>],
     [kind |-> "numeric", text |-> <<"0","1",".","0","1",".","2","0","2">>],
     [kind |-> "iso", text |-> <<"2","0","2","4","-","0","1","-","1","5">>]}

LineAmounts ==
    {[text |-> <<>>, cents |-> {}],
     [text |-> <<"9",",","9","9"," ","E","U","R">>, cents |-> {999}],
     [text |-> <<"1",".","2","3","4",",","5","6"," ","E","U","R">>, cents |-> {123456}],
     [text |-> <<"2","2",",","5","0"," ","€">>, cents |-> {2250}],
     [text |-> <<"E","U","R"," ","2","2",",","5","0">>, cents |-> {2250}],
     [text |-> <<"0",",","0","0"," ","E","U","R">>, cents |-> {0}],
     [text |-> <<"5",",","0","0"," ","E","U","R"," ","7",",","0","0"," ","E","U","R">>, cents |-> {500, 700}],
     [text |-> <<"1","2",".","9","9"," ","U","S","D">>, cents |-> {1299}],
     [text |-> <<"1",",","2","3","4",".","5","6"," ","U","S","D">>, cents |-> {123456}],
     [text |-> <<"$","1","2",".","9","9">>, cents |-> {1299}],
     [text |-> <<"$","1",",","2","3","4",".","5","6"," ","U","S","D">>, cents |-> {123456}]}

LineDescriptions ==
    {[before |-> <<>>, text |-> <<"N","e","t","f","l","i","x">>, after |-> <<>>],
     [before |-> <<>>, text |-> <<"A","b">>, after |-> <<>>],
     [before |-> <<>>, text |-> <<>>, after |-> <<>>],
     [before |-> <<"R","e","c","h","n","u","n","g"," ","F","i","t","n","e","s","s"," ","C","l","u","b">>, text |-> <<>>, after |-> <<>>],
     [before |-> <<"F","i","t","n","e","s","s"," ","C","l","u","b">>, text |-> <<>>, after |-> <<"G","e","s","a","m","t">>]}

LineShapes ==
    {[dates |-> ds, description |-> d, amount |-> a] :
        ds \in {s \in SeqsUpTo(LineDates, MaxDates) :
                   \A i, j \in 1..Len(s) : i # j => s[i] # s[j]},
        d \in LineDescriptions, a \in LineAmounts}

\* the text of a shape: the line before, the line (first date, description,
\* further dates, amount) and the line after
lineTextOf(sh) ==
    join(SelectSeq((IF sh.dates = <<>> THEN <<>> ELSE <<sh.dates[1].text>>)
                   \o <<sh.description.text>>
                   \o [k \in 1..(Len(sh.dates) - 1) |-> sh.dates[k + 1].text]
                   \o <<sh.amount.text>>,
                   LAMBDA part : part # <<>>))

textOf(sh) ==
    sh.description.before \o <<"\n">> \o lineTextOf(sh) \o <<"\n">> \o sh.description.after

\* extractTransactionsFromPDFText on its own: a call with a text of the family
InitExtract ==
    \E sh \in LineShapes :
        /\ transactions = <<>>
        /\ subscriptions = <<>>
        /\ candidates = <<>>
        /\ selectedCandidates = <<>>
        /\ ignoredCandidates = <<>>
        /\ step = "upload"
        /\ isAnalyzing = FALSE
        /\ timer = NoTimer
        /\ importing = NotImporting
        /\ nextId = 1
        /\ csv = NoCsv
        /\ pdf = NoPdf
        /\ call = [returned |-> FALSE, shape |-> sh, arg |-> textOf(sh), result |-> <<>>]

callExtract ==
    /\ ~call.returned
    /\ call' = [call EXCEPT !.returned = TRUE,
                            !.result = extractTransactionsFromPDFText(call.arg)]
    /\ UNCHANGED <<transactions, subscriptions, candidates, selectedCandidates,
                   ignoredCandidates, step, isAnalyzing, timer, importing, nextId,
                   csv, pdf>>

NextExtract == callExtract

SpecExtract == InitExtract /\ [][NextExtract]_vars

----------------------------------------------------------------------------
(* The PDF flow: handleFileUpload for a PDF file, parsePDFFile, the route  *)
(* POST /api/import/parse-pdf with parsePDFBuffer and isScannedPDF, and    *)
(* the timer that analyses the extracted transactions.  pdf.file is what   *)
(* the PDF library makes of the uploaded file: the text and the page count *)
(* it reports, or the error it throws.  pdf.extracted records that         *)
(* extractTransactionsFromPDFText was called.                              *)

\* the variant that counts 100 characters a page as scanned
isScannedAtMost(text, numPages) == Len(text) <= 100 * numPages

\* isScannedPDF: text.length / numPages < 100, for a page count above 0
isScannedPDF(text, numPages) == Len(text) < 100 * numPages

\* parsePDFBuffer: `data.numpages || ... || 1`; 0 stands for a page count
\* the library does not report
parsePDFBuffer(file) ==
    [text |-> file.text, numPages |-> IF file.numpages = 0 THEN 1 ELSE file.numpages]

\* the message of the error parsePDFBuffer throws
parsingFailed(message) ==
    <<"P","D","F"," ","p","a","r","s","i","n","g"," ","f","a","i","l","e","d",":"," ">> \o message

\* the variant that answers every failure with the generic message
genericMessage(message) == "Failed to parse PDF"

\* errorMessage of the catch block of the route
errorMessage(message) ==
    IF includes(message, <<"e","n","c","r","y","p","t","e","d">>)
    THEN "This PDF is password-protected. Please remove the password and try again."
    ELSE IF includes(message, <<"I","n","v","a","l","i","d"," ","P","D","F">>)
    THEN "This file doesn't appear to be a valid PDF document."
    ELSE IF includes(message, <<"U","n","s","u","p","p","o","r","t","e","d">>)
    THEN "This PDF format is not supported. Try exporting it from your banking app again."
    ELSE "Failed to parse PDF"

\* the response for a file whose text was read
parsedResponse(data) ==
    IF isScannedPDF(data.text, data.numPages)
    THEN [ok |-> TRUE, transactions |-> <<>>, isScanned |-> TRUE,
          rawText |-> data.text, numPages |-> data.numPages,
          message |-> "This appears to be a scanned PDF. OCR is required to extract text."]
    ELSE [ok |-> TRUE, transactions |-> extractTransactionsFromPDFText(data.text),
          isScanned |-> FALSE, rawText |-> data.text, numPages |-> data.numPages]

\* the response with status 400 for a file the library fails on
errorResponse(message) ==
    [ok |-> FALSE, error |-> errorMessage(message), details |-> message]

MaxPages == 2     \* most pages of a file of the files family

\* Files family: a statement, a text without transactions or no text,
\* filled up with a line of dashes or cut to a length around 100 characters
\* a page, with each page count; and a file the library fails on, with its
\* cause and the message the library gives for it.
Statements ==
    {<<"2","0","2","4","-","0","1","-","0","1"," ","S","p","o","t","i","f","y"," ","9",",","9","9"," ","E","U","R","\n","2","0","2","4","-","0","2","-","0","1"," ","S","p","o","t","i","f","y"," ","9",",","9","9"," ","E","U","R","\n","2","0","2","4","-","0","3","-","0","1"," ","S","p","o","t","i","f","y"," ","9",",","9","9"," ","E","U","R","\n">>,
     <<"K","o","n","t","o","a","u","s","z","u","g","\n">>,
     <<>>}

PdfLengths == {0, 50} \cup {100 * p + d : p \in 1..MaxPages, d \in {-1, 0, 1}}

ReadableFiles ==
    {[fails |-> FALSE,
      text |-> SubSeq(s \o [k \in 1..n |-> "-"], 1, IF s = <<>> THEN 0 ELSE n),
      numpages |-> p] :
        s \in Statements, n \in PdfLengths, p \in 0..MaxPages}

FailingFiles ==
    {[fails |-> TRUE, cause |-> "encrypted", message |-> <<"F","i","l","e"," ","i","s"," ","e","n","c","r","y","p","t","e","d">>],
     [fails |-> TRUE, cause |-> "invalid", message |-> <<"I","n","v","a","l","i","d"," ","P","D","F"," ","s","t","r","u","c","t","u","r","e">>],
     [fails |-> TRUE, cause |-> "unsupported", message |-> <<"U","n","s","u","p","p","o","r","t","e","d"," ","f","e","a","t","u","r","e">>],
     [fails |-> TRUE, cause |-> "other", message |-> <<"b","a","d"," ","X","R","e","f"," ","e","n","t","r","y">>],
     [fails |-> TRUE, cause |-> "other",
      message |-> <<"C","o","u","l","d"," ","n","o","t"," ","f","i","n","d"," ","P","D","F"," ","p","a","r","s","i","n","g"," ","f","u","n","c","t","i","o","n"," ","i","n"," ","m","o","d","u","l","e">>]}

\* handleFileUpload for a PDF file, up to the request of parsePDFFile
InitPdf ==
    \E file \in ReadableFiles \cup FailingFiles :
        /\ transactions = <<>>
        /\ subscriptions = <<>>
        /\ candidates = <<>>
        /\ selectedCandidates = <<>>
        /\ ignoredCandidates = <<>>
        /\ step = "upload"
        /\ isAnalyzing = TRUE
        /\ timer = NoTimer
        /\ importing = NotImporting
        /\ nextId = 1
        /\ csv = NoCsv
        /\ pdf = [phase |-> "request", file |-> file, extracted |-> FALSE]
        /\ call = NoCall

\* POST /api/import/parse-pdf for the file of the request
parsePdf ==
    /\ pdf.phase = "request"
    /\ IF pdf.file.fails
       THEN pdf' = [phase |-> "response", file |-> pdf.file, extracted |-> FALSE,
                    response |-> errorResponse(parsingFailed(pdf.file.message))]
       ELSE \E response \in {parsedResponse(parsePDFBuffer(pdf.file))} :
                pdf' = [phase |-> "response", file |-> pdf.file,
                        extracted |-> ~response.isScanned, response |-> response]
    /\ UNCHANGED <<transactions, subscriptions, candidates, selectedCandidates,
                   ignoredCandidates, step, isAnalyzing, timer, importing, nextId,
                   csv, call>>

\* handleFileUpload from the answer of parsePDFFile on: the catch block for
\* a response that is not ok, the two early returns, and setTimeout
handlePdfResult ==
    /\ pdf.phase = "response"
    /\ IF ~pdf.response.ok
       THEN /\ pdf' = [pdf EXCEPT !.phase = "done"] @@ [toast |-> pdf.response.error]
            /\ isAnalyzing' = FALSE
            /\ UNCHANGED <<transactions, timer>>
       ELSE IF pdf.response.isScanned
       THEN /\ pdf' = [pdf EXCEPT !.phase = "done"] @@ [toast |-> "Scanned PDF detected"]
            /\ isAnalyzing' = FALSE
            /\ UNCHANGED <<transactions, timer>>
       ELSE IF Len(pdf.response.transactions) = 0
       THEN /\ pdf' = [pdf EXCEPT !.phase = "done"] @@ [toast |-> "No transactions found"]
            /\ isAnalyzing' = FALSE
            /\ UNCHANGED <<transactions, timer>>
       ELSE \E parsed \in {[k \in 1..Len(pdf.response.transactions) |->
                               ParsedTransaction(pdf.response.transactions[k].date,
                                                 pdf.response.transactions[k].description,
                                                 pdf.response.transactions[k].amount,
                                                 pdf.response.transactions[k].currency)]} :
                /\ pdf' = [pdf EXCEPT !.phase = "done"] @@ [toast |-> ""]
                /\ transactions' = parsed
                /\ timer' = [pending |-> TRUE, parsed |-> parsed,
                             subscriptions |-> subscriptions]
                /\ UNCHANGED isAnalyzing
    /\ UNCHANGED <<subscriptions, candidates, selectedCandidates, ignoredCandidates,
                   step, importing, nextId, csv, call>>

NextPdf == parsePdf \/ handlePdfResult \/ Analyze

SpecPdf == InitPdf /\ [][NextPdf]_vars

----------------------------------------------------------------------------
(* The mapping flow: a CSV upload followed by the column selection of the  *)
(* mapping step, the preview step and the analysis.  One file is uploaded  *)
(* in a session of the dialog.                                             *)

\* Mapping family: header lines whose names are synonyms in upper and lower
\* case, names that only contain a synonym, two synonyms of one field, and
\* the default names of parseCSVRow; under each header line lists of rows
\* with and without a currency cell, with an amount that is no number and
\* with an empty date
MapFields ==
    { << <<"D","a","t","e">>, <<"V","a","l","u","t","a","d","a","t","u","m">>, <<"M","e","r","c","h","a","n","t">>, <<"A","m","o","u","n","t">> >>,
      << <<"B","u","c","h","u","n","g","s","d","a","t","u","m">>, <<"T","e","x","t">>, <<"B","e","t","r","a","g"," ","(","E","U","R",")">> >>,
      << <<"d","a","t","e">>, <<"d","e","s","c","r","i","p","t","i","o","n">>, <<"a","m","o","u","n","t">>, <<"c","u","r","r","e","n","c","y">> >>,
      << <<"D","A","T","U","M">>, <<"E","m","p","f","ä","n","g","e","r">>, <<"S","U","M","M","E">>, <<"C","c","y">> >> }

MapCells ==
    { << << <<"2","0","2","4","-","0","1","-","0","1">>, <<"S","p","o","t","i","f","y">>, <<"9",",","9","9">>, <<"U","S","D">> >>,
         << <<"2","0","2","4","-","0","2","-","0","1">>, <<"S","p","o","t","i","f","y">>, <<"a","b","c">>, <<"U","S","D">> >>,
         << <<"2","0","2","4","-","0","3","-","0","1">>, <<"S","p","o","t","i","f","y">>, <<"9",".","9","9">>, <<>> >> >>,
      << << <<>>, <<"S","p","o","t","i","f","y">>, <<"9",",","9","9">>, <<"C","H","F">> >>,
         << <<"2","0","2","4","-","0","2","-","0","1">>, <<"S","p","o","t","i","f","y">>, <<"-","1","2",",","5","0"," ","E","U","R">>, <<>> >> >>,
      << << <<"2","0","2","4","-","0","2","-","0","1">>, <<>>, <<>>, <<>> >> >> }

MapFiles ==
    {[fields |-> f, rows |-> [i \in 1..Len(l) |-> rowOf(f, SubSeq(l[i], 1, Len(f)))]] :
        f \in MapFields, l \in MapCells}

InitMap ==
    \E file \in MapFiles :
        /\ transactions = <<>>
        /\ subscriptions = <<>>
        /\ candidates = <<>>
        /\ selectedCandidates = <<>>
        /\ ignoredCandidates = <<>>
        /\ step = "upload"
        /\ isAnalyzing = TRUE
        /\ timer = NoTimer
        /\ importing = NotImporting
        /\ nextId = 1
        /\ csv = [NoCsv EXCEPT !.parsing = TRUE, !.fields = file.fields, !.rows = file.rows]
        /\ pdf = NoPdf
        /\ call = NoCall

\* onValueChange of a Select of the mapping step: setColumnMapping(prev =>
\* ({...prev, [field]: v})); 'Not specified' of the currency column is
\* undefined, the empty string of the model
setColumnMapping(field, v) ==
    /\ step = "mapping"
    /\ \/ \E i \in 1..Len(csv.headers) : v = csv.headers[i]
       \/ field = "currency" /\ v = <<>>
    /\ csv' = [csv EXCEPT !.columnMapping[field] = v]
    /\ UNCHANGED <<transactions, subscriptions, candidates, selectedCandidates,
                   ignoredCandidates, step, isAnalyzing, timer, importing, nextId,
                   pdf, call>>

\* the button Continue to Preview, disabled unless date, description and
\* amount are mapped
continueToPreview ==
    /\ step = "mapping"
    /\ csv.columnMapping.date # <<>>
    /\ csv.columnMapping.description # <<>>
    /\ csv.columnMapping.amount # <<>>
    /\ step' = "preview"
    /\ UNCHANGED <<transactions, subscriptions, candidates, selectedCandidates,
                   ignoredCandidates, isAnalyzing, timer, importing, nextId, fileVars>>

\* the buttons Back to Mapping of the preview step and Back of the mapping
\* step (left out while the timer of an analysis is pending)
goBack ==
    /\ ~timer.pending
    /\ \/ step = "preview" /\ step' = "mapping"
       \/ step = "mapping" /\ step' = "upload"
    /\ UNCHANGED <<transactions, subscriptions, candidates, selectedCandidates,
                   ignoredCandidates, isAnalyzing, timer, importing, nextId, fileVars>>

NextMap ==
    \/ complete
    \/ \E field \in {"date", "description", "amount", "currency"},
          v \in {<<>>} \cup {csv.headers[i] : i \in 1..Len(csv.headers)} :
           setColumnMapping(field, v)
    \/ continueToPreview
    \/ goBack
    \/ handleAnalyze
    \/ Analyze

SpecMap == InitMap /\ [][NextMap]_vars

----------------------------------------------------------------------------
(* normalizeMerchant on its own.                                           *)

MaxWords == 3     \* most words of a description of the descriptions family

\* Descriptions family: up to MaxWords words, among them names of providers
\* (with their place in the catalog) and words of one to six letters,
\* written as they are or in upper case, after a payment indicator and
\* before a number of three or of five digits
DescriptionWords ==
    {[text |-> <<"N","e","t","f","l","i","x">>, provider |-> 1], [text |-> <<"D","a","z","n">>, provider |-> 5],
     [text |-> <<"V","o","d","a","f","o","n","e">>, provider |-> 10], [text |-> <<"G","y","m">>, provider |-> 0],
     [text |-> <<"a","b">>, provider |-> 0], [text |-> <<"B","e","r","l","i","n">>, provider |-> 0]}

DescriptionShapes ==
    {[before |-> b, words |-> w, after |-> a, upper |-> u] :
        b \in {<<>>, <<"P","A","Y","P","A","L"," ","*">>, <<"S","E","P","A"," ","L","a","s","t","s","c","h","r","i","f","t"," ">>},
        w \in SeqsUpTo(DescriptionWords, MaxWords),
        a \in {<<>>, <<" ","1","2","3">>, <<" ","1","2","3","4","5">>},
        u \in BOOLEAN}

descriptionOf(sh) ==
    sh.before
        \o (IF sh.upper
            THEN [i \in 1..Len(join([k \in 1..Len(sh.words) |-> sh.words[k].text])) |->
                     charToUpper(join([k \in 1..Len(sh.words) |-> sh.words[k].text])[i])]
            ELSE join([k \in 1..Len(sh.words) |-> sh.words[k].text]))
        \o sh.after

InitMerchant ==
    \E sh \in DescriptionShapes :
        /\ transactions = <<>>
        /\ subscriptions = <<>>
        /\ candidates = <<>>
        /\ selectedCandidates = <<>>
        /\ ignoredCandidates = <<>>
        /\ step = "upload"
        /\ isAnalyzing = FALSE
        /\ timer = NoTimer
        /\ importing = NotImporting
        /\ nextId = 1
        /\ csv = NoCsv
        /\ pdf = NoPdf
        /\ call = [returned |-> FALSE, shape |-> sh, arg |-> descriptionOf(sh), result |-> <<>>]

callNormalizeMerchant ==
    /\ ~call.returned
    /\ call' = [call EXCEPT !.returned = TRUE, !.result = normalizeMerchant(call.arg)]
    /\ UNCHANGED <<transactions, subscriptions, candidates, selectedCandidates,
                   ignoredCandidates, step, isAnalyzing, timer, importing, nextId,
                   csv, pdf>>

NextMerchant == callNormalizeMerchant

SpecMerchant == InitMerchant /\ [][NextMerchant]_vars

----------------------------------------------------------------------------
(* Repeated calls of analyzeImportedTransactions.  The calls of all import *)
(* sessions of a page run one after the other (a callback runs to its end  *)
(* before the next one starts) in one environment: one time zone and one   *)
(* engine.  call.clockChange is the day on which the summer time of the    *)
(* zone starts (0: a zone without one), call.earlier are the transactions  *)
(* of the calls made so far and call.log are the calls with their results. *)

MaxCalls == 3   \* most calls of a behaviour

ClockChanges == {0, 20, 45}

\* a variant: the groups of the earlier calls are still there
groupsKept(earlier) == earlier

\* `const candidates = []` and `const groups = {}`: what the groups hold
\* when the grouping loop starts, given the transactions of earlier calls
groupsOnEntry(earlier) == <<>>

\* lastDate.setDate(lastDate.getDate() + intervalDays) works on the local
\* date and toISOString() on UTC: the day that gets lost when the local
\* clock is put forward between the last transaction and the next payment
dstShiftIn(clockChange, lastDate, intervalDays) ==
    IF clockChange > lastDate /\ clockChange <= lastDate + intervalDays THEN 1 ELSE 0

\* the candidates pushed by the callbacks in the zone of the session
pushedIn(clockChange, emitted) ==
    [i \in 1..Len(emitted) |->
        emitted[i][dstShiftIn(clockChange,
                              emitted[i][0].candidate.transactions[
                                  Len(emitted[i][0].candidate.transactions)].date,
                              emitted[i][0].candidate.intervalDays.v)].candidate]

\* candidates.sort(...) of one engine: its result is a function of the array
engineSort(cands) == CHOOSE sorted \in sortOutcomes(cands) : TRUE

sortedIn(clockChange, results) ==
    IF \E p \in 1..Len(results) : results[p][0].threw
    THEN [threw |-> TRUE, value |-> <<>>]
    ELSE [threw |-> FALSE,
          value |-> engineSort(pushedIn(clockChange,
                                        SelectSeq(results, LAMBDA r : r[0].emit)))]

analyzeMerchants(clockChange, txs, merchants, existingSubscriptions) ==
    IF \E i \in 1..Len(merchants) : merchants[i] \in ObjectPrototypeKeys
    THEN [threw |-> TRUE, value |-> <<>>]
    ELSE sortedIn(clockChange,
                  groupResults(txs, merchants, entriesOrder(insertionKeys(merchants)),
                               existingSubscriptions))

\* one call in the environment of the session
analyzeIn(clockChange, inGroups, txs, existingSubscriptions) ==
    analyzeMerchants(clockChange, inGroups \o txs, merchantsOf(inGroups \o txs),
                     existingSubscriptions)

\* the transaction lists and existing subscriptions of the sessions
SessionInputs ==
    {[transactions |-> t, subscriptions |-> e] :
        t \in { <<Tx(dNetflix, 1000, 0), Tx(dNetflix, 1150, 30)>>,
                <<Tx(dGymRef, 1000, 0), Tx(dNetflix, 1000, 7), Tx(dGymRef, 1000, 7),
                  Tx(dNetflix, 1000, 14)>>,
                <<Tx(dGymRef, 1000, 30), Tx(dGymRef, 1000, 0)>> },
        e \in { <<>>, <<withId(Existing(<<"N","e","t","f","l","i","x">>, "netflix"), 1)>> }}

InitSessions ==
    /\ \E clockChange \in ClockChanges :
           call = [returned |-> FALSE, clockChange |-> clockChange,
                   earlier |-> <<>>, log |-> <<>>]
    /\ transactions = <<>>
    /\ subscriptions = <<>>
    /\ candidates = <<>>
    /\ selectedCandidates = <<>>
    /\ ignoredCandidates = <<>>
    /\ step = "upload"
    /\ isAnalyzing = FALSE
    /\ timer = NoTimer
    /\ importing = NotImporting
    /\ nextId = 1
    /\ csv = NoCsv
    /\ pdf = NoPdf

\* a session calls analyzeImportedTransactions(in.transactions,
\* in.subscriptions); transactions and subscriptions are the two arrays
\* after the call, which writes to neither
callAnalyze(in) ==
    /\ Len(call.log) < MaxCalls
    /\ \E r \in {analyzeIn(call.clockChange, groupsOnEntry(call.earlier),
                           in.transactions, in.subscriptions)} :
           call' = [call EXCEPT !.returned = TRUE,
                                !.earlier = call.earlier \o in.transactions,
                                !.log = Append(call.log, [input |-> in, result |-> r])]
    /\ transactions' = in.transactions
    /\ subscriptions' = in.subscriptions
    /\ UNCHANGED <<candidates, selectedCandidates, ignoredCandidates, step,
                   isAnalyzing, timer, importing, nextId, csv, pdf>>

NextSessions == \E in \in SessionInputs : callAnalyze(in)

SpecSessions == InitSessions /\ [][NextSessions]_vars

----------------------------------------------------------------------------
(* Closing the dialog.  onOpenChange(false) runs setOpen(false) and        *)
(* reset(); the dialog can be closed at any time, and opening it again     *)
(* changes nothing but `open`, so the actions of the user on the results   *)
(* step stay possible.  Closing during a handleImport call is left out.    *)

\* onOpenChange(false): reset() sets the step and clears the file, the
\* mapping, the transactions, the candidates and the selections; it leaves
\* isAnalyzing alone and does not cancel the timer of the analysis
closeDialog ==
    /\ ~importing.active
    /\ step' = "upload"
    /\ csv' = NoCsv
    /\ transactions' = <<>>
    /\ candidates' = <<>>
    /\ selectedCandidates' = <<>>
    /\ ignoredCandidates' = <<>>
    /\ UNCHANGED <<subscriptions, isAnalyzing, timer, importing, nextId, pdf, call>>

NextClose == NextDialog \/ closeDialog

SpecClose == InitDialog /\ [][NextClose]_vars

----------------------------------------------------------------------------
(* The migration of guest data: migrateLocalToServer of useSubscriptions,  *)
(* api.migrateSubscriptions and POST /api/subscriptions/migrate.  In       *)
(* SpecMigrate `call` is the call of migrateLocalToServer with what it     *)
(* works on: call.local is the list under the key of LocalApi in local     *)
(* storage, call.server are the rows of the user in the subscriptions      *)
(* table (`from` notes the entry a row was made from), call.body is the    *)
(* request and call.response its answer.                                   *)

MaxStored == 3   \* most entries in local storage

\* subscriptionSchema.safeParse(i).success, for the fields of the model
subscriptionSchema(sub) ==
    /\ Len(sub.name) >= 1
    /\ sub.price.num >= 0
    /\ sub.noticePeriodDays.num >= 0

\* LocalApi.list(): the stored entries that are valid subscriptions
LocalApiList(stored) == SelectSeq(stored, subscriptionSchema)

\* toCents: Math.round(price * 100); the prices of the model are in cents
toCents(price) == RoundDiv(price.num, price.den)

toBackendFormat(sub) == [sub EXCEPT !.price = toCents(sub.price)]

fromBackendFormat(row) == [row EXCEPT !.price = Fraction(row.price, 1)]

\* insertSubscriptionSchema.safeParse(sub) and storage.createSubscription:
\* price and notice_period_days are integer columns, for which a number
\* with a fraction is refused by the validation or by the insert;
\* `inserted` tells whether the insert went through otherwise
rowStored(sub, inserted) ==
    /\ sub.price \in Int
    /\ sub.noticePeriodDays.den = 1
    /\ inserted

\* the loop of the route: the rows made from the entries that were stored
importedRows(body, inserted) ==
    [k \in 1..Len(SelectSeq([i \in 1..Len(body) |-> i],
                            LAMBDA i : rowStored(body[i], inserted[i]))) |->
        [from |-> body[SelectSeq([i \in 1..Len(body) |-> i],
                                 LAMBDA i : rowStored(body[i], inserted[i]))[k]].id,
         row |-> body[SelectSeq([i \in 1..Len(body) |-> i],
                                LAMBDA i : rowStored(body[i], inserted[i]))[k]]]]

\* an entry of local storage with its notice period, a number of days
Stored(name, providerId, noticePeriodDays) ==
    [Existing(name, providerId) EXCEPT !.noticePeriodDays = noticePeriodDays]

\* the entries of the guest: two subscriptions, one of them with a notice
\* period of 14.5 days, and an entry without a name, which is not a valid
\* subscription
StoredPool ==
    { Stored(<<"N","e","t","f","l","i","x">>, "netflix", Fraction(30, 1)),
      Stored(<<"G","y","m">>, "", Fraction(29, 2)),
      Stored(<<>>, "", Fraction(30, 1)) }

StoredLists ==
    {[i \in 1..Len(l) |-> withId(l[i], i)] : l \in SeqsUpTo(StoredPool, MaxStored)}

NoResponse == [ok |-> FALSE, imported |-> 0]

InitMigrate ==
    /\ \E stored \in StoredLists, user \in BOOLEAN :
           call = [returned |-> FALSE, phase |-> "idle", user |-> user,
                   started |-> stored, local |-> stored, server |-> <<>>,
                   body |-> <<>>, response |-> NoResponse]
    /\ transactions = <<>>
    /\ subscriptions = <<>>
    /\ candidates = <<>>
    /\ selectedCandidates = <<>>
    /\ ignoredCandidates = <<>>
    /\ step = "upload"
    /\ isAnalyzing = FALSE
    /\ timer = NoTimer
    /\ importing = NotImporting
    /\ nextId = 1
    /\ csv = NoCsv
    /\ pdf = NoPdf

otherVars == <<transactions, candidates, selectedCandidates, ignoredCandidates,
               step, isAnalyzing, timer, importing, nextId, csv, pdf>>

\* migrateLocalToServer up to its await: without a user, or with nothing
\* to migrate, it returns; otherwise api.migrateSubscriptions sends the
\* list in backend format
migrateLocalToServer ==
    /\ call.phase = "idle"
    /\ call' = IF ~call.user \/ Len(LocalApiList(call.local)) = 0
               THEN [call EXCEPT !.phase = "done", !.returned = TRUE]
               ELSE [call EXCEPT !.phase = "request",
                                 !.body = [i \in 1..Len(LocalApiList(call.local)) |->
                                              toBackendFormat(LocalApiList(call.local)[i])]]
    /\ UNCHANGED subscriptions
    /\ UNCHANGED otherVars

\* POST /api/subscriptions/migrate: every entry is validated and inserted
\* on its own, a failure is logged and the loop goes on; the answer is the
\* number of imported entries.  The request or its answer can also fail
\* (no session, no connection): then res.ok is false or fetch throws.
migrateRoute ==
    /\ call.phase = "request"
    /\ \E inserted \in [1..Len(call.body) -> BOOLEAN], reached \in BOOLEAN,
          answered \in BOOLEAN :
           call' = [call EXCEPT
                      !.phase = "response",
                      !.server = IF reached
                                 THEN call.server \o importedRows(call.body, inserted)
                                 ELSE call.server,
                      !.response =
                          IF reached /\ answered
                          THEN [ok |-> TRUE,
                                imported |-> Len(importedRows(call.body, inserted))]
                          ELSE NoResponse]
    /\ UNCHANGED subscriptions
    /\ UNCHANGED otherVars

\* migrateLocalToServer after its await: on success the toast,
\* LocalApi.clear() and fetchSubscriptions(); otherwise the exception is
\* caught and local storage is left alone
migrateFinish ==
    /\ call.phase = "response"
    /\ call' = [call EXCEPT !.phase = "done", !.returned = TRUE,
                            !.local = IF call.response.ok THEN <<>> ELSE call.local]
    /\ subscriptions' =
           IF call.response.ok
           THEN [i \in 1..Len(call.server) |-> fromBackendFormat(call.server[i].row)]
           ELSE subscriptions
    /\ UNCHANGED otherVars

NextMigrate == migrateLocalToServer \/ migrateRoute \/ migrateFinish

SpecMigrate == InitMigrate /\ [][NextMigrate]_vars

----------------------------------------------------------------------------
(* Properties.  In Spec a state with step = "results" is one in which      *)
(* analyzeImportedTransactions has returned: `transactions` is its first   *)
(* argument, `subscriptions` its second and `candidates` its result.       *)

analysed == step = "results"

\* the grouping key of a candidate
keyOf(c) == merchantOf(c.transactions[1])

\* the absolute amounts of the transactions with grouping key ms[j]
groupAmounts(ms, j) ==
    LET members == SelectSeq([i \in 1..Len(ms) |-> i], LAMBDA i : ms[i] = ms[j])
    IN  [p \in 1..Len(members) |-> Abs(transactions[members[p]].amount)]

\* |a - avg| / avg >= 0.10 for the mean avg of the (positive) amounts
deviates(a, amounts) ==
    100 * Abs(Len(amounts) * a - Sum(amounts)) >= 10 * Sum(amounts)

someCandidateOf(key) ==
    \E k \in 1..Len(candidates) : keyOf(candidates[k]) = key

\* C1: a grouping key carried by exactly one transaction of the input never
\* appears as a candidate of the result.
C1_SingleOccurrence ==
    analysed =>
        LET ms == merchantsOf(transactions)
        IN  \A j \in 1..Len(ms) :
                Cardinality({i \in 1..Len(ms) : ms[i] = ms[j]}) = 1
                    => ~someCandidateOf(ms[j])

\* a result with a candidate, for an input in which some key occurs once
C1_Witness ==
    /\ analysed
    /\ Len(candidates) > 0
    /\ LET ms == merchantsOf(transactions)
       IN  \E j \in 1..Len(ms) :
               /\ ms[j] # <<>>
               /\ Cardinality({i \in 1..Len(ms) : ms[i] = ms[j]}) = 1

isExampleGroup(ms, j) ==
    /\ ms[j] # <<>>
    /\ groupAmounts(ms, j) \in ExampleAmounts

\* C3, as stated: a group of three transactions with the amounts 10.00,
\* 10.00 and 11.50 yields no candidate, whatever the dates.
C3_ExampleRejected ==
    analysed =>
        LET ms == merchantsOf(transactions)
        IN  \A j \in 1..Len(ms) : isExampleGroup(ms, j) => ~someCandidateOf(ms[j])

\* C3, amended: a group of three transactions with the amounts 10.00, 10.00
\* and 11.50 (each within 9.53% of the mean 10.50) passes the amount gate
\* and yields a candidate with the price 10.50, whatever the dates.
C3_ExampleEmitted ==
    analysed =>
        LET ms == merchantsOf(transactions)
        IN  \A j \in 1..Len(ms) :
                isExampleGroup(ms, j) =>
                    \E k \in 1..Len(candidates) :
                        /\ keyOf(candidates[k]) = ms[j]
                        /\ Len(candidates[k].transactions) = 3
                        /\ candidates[k].subscription.price = Fraction(1050, 1)

\* a result holding the candidate of such a group
C3_Witness ==
    /\ analysed
    /\ LET ms == merchantsOf(transactions)
       IN  \E j \in 1..Len(ms) : isExampleGroup(ms, j) /\ someCandidateOf(ms[j])

bandOf(total, count) ==
    IF      350 * count <= total /\ total <= 380 * count THEN "yearly"
    ELSE IF 85 * count <= total  /\ total <= 95 * count  THEN "quarterly"
    ELSE IF 25 * count <= total  /\ total <= 35 * count  THEN "monthly"
    ELSE IF 5 * count <= total   /\ total <= 9 * count   THEN "weekly"
    ELSE "none"

\* the sum of the gaps between the transactions of a candidate, which are
\* sorted by date
gapTotal(c) == c.transactions[Len(c.transactions)].date - c.transactions[1].date

gapCount(c) == Len(c.transactions) - 1

\* the dates of the transactions with grouping key ms[j] span total days
groupSpan(ms, j) ==
    LET dates == {transactions[i].date : i \in {x \in 1..Len(ms) : ms[x] = ms[j]}}
    IN  (CHOOSE d \in dates : \A e \in dates : e <= d)
            - (CHOOSE d \in dates : \A e \in dates : d <= e)

\* C5: the interval of a candidate is the band its average gap lies in, the
\* end points of the bands included (yearly 350-380, monthly 25-35, weekly
\* 5-9, quarterly 85-95) and is "monthly" when the average gap lies in no
\* band; a group of two or more transactions that passes the amount gate is
\* returned as a candidate also when its average gap lies in no band.
C5_Bands ==
    analysed =>
        /\ \A k \in 1..Len(candidates) :
               LET c == candidates[k]
                   band == bandOf(gapTotal(c), gapCount(c))
               IN  /\ c.interval = IF band = "none" THEN "monthly" ELSE band
                   /\ c.subscription.interval = c.interval
        /\ LET ms == merchantsOf(transactions)
           IN  \A j \in 1..Len(ms) :
                   LET amounts == groupAmounts(ms, j)
                   IN  ( /\ ms[j] # <<>>
                         /\ Len(amounts) >= 2
                         /\ \A i \in 1..Len(amounts) : ~deviates(amounts[i], amounts)
                         /\ bandOf(groupSpan(ms, j), Len(amounts) - 1) = "none" )
                           => \E k \in 1..Len(candidates) :
                                  /\ keyOf(candidates[k]) = ms[j]
                                  /\ candidates[k].interval = "monthly"

\* a result with a monthly candidate whose average gap is exactly 45 days
C5_Witness ==
    /\ analysed
    /\ \E k \in 1..Len(candidates) :
           /\ gapTotal(candidates[k]) = 45 * gapCount(candidates[k])
           /\ candidates[k].interval = "monthly"

\* all gaps of the candidate are gap days
equalGaps(c, gap) ==
    \A i \in 1..(Len(c.transactions) - 1) :
        c.transactions[i + 1].date - c.transactions[i].date = gap

\* the candidate has equal gaps that lie in no band
offBandRegular(c) ==
    /\ gapTotal(c) > 0
    /\ bandOf(gapTotal(c), gapCount(c)) = "none"
    /\ gapTotal(c) % gapCount(c) = 0
    /\ equalGaps(c, gapTotal(c) \div gapCount(c))

\* the outcome for the otherwise identical group with equal gaps of 30 days
monthlyTwin(c) ==
    analyzeGroup(keyOf(c),
                 [i \in 1..Len(c.transactions) |->
                     [c.transactions[i] EXCEPT !.date = 30 * (i - 1)]],
                 subscriptions, 0)

\* C6, as stated: a group with equal gaps in no band (45 days, say) gets a
\* lower confidence than the otherwise identical group with equal gaps of
\* 30 days.
C6_LowerOffBand ==
    analysed =>
        \A k \in 1..Len(candidates) :
            offBandRegular(candidates[k]) =>
                /\ monthlyTwin(candidates[k]).emit
                /\ candidates[k].confidence.v
                       < monthlyTwin(candidates[k]).candidate.confidence.v

\* C6, amended: a group with equal gaps in no band gets the same confidence
\* as the otherwise identical group with equal gaps of 30 days: the
\* confidence depends on the regularity of the gaps, on the amounts and on
\* the number of transactions, not on the band.
C6_SameOffBand ==
    analysed =>
        \A k \in 1..Len(candidates) :
            offBandRegular(candidates[k]) =>
                /\ monthlyTwin(candidates[k]).emit
                /\ candidates[k].confidence
                       = monthlyTwin(candidates[k]).candidate.confidence

\* a result with a candidate whose gaps are all 45 days
C6_Witness ==
    /\ analysed
    /\ \E k \in 1..Len(candidates) :
           /\ offBandRegular(candidates[k])
           /\ equalGaps(candidates[k], 45)

\* the two reasons
priceChangeReason ==
    [n |-> 0, text |-> "Existing subscription - price change detected"]

detectedReason(n) == [n |-> n, text |-> "transactions detected"]

\* some existing subscription has a normalized name equal to the candidate's
\* key, case ignored, or shares a non-empty providerId with the candidate
matchesExisting(c) ==
    \E i \in 1..Len(subscriptions) :
        \/ toLowerCase(normalizeMerchant(subscriptions[i].name)) = toLowerCase(keyOf(c))
        \/ /\ subscriptions[i].providerId # ""
           /\ subscriptions[i].providerId = c.subscription.providerId

\* C7: a candidate has the reason "Existing subscription - price change
\* detected" exactly when an existing subscription's normalized name equals
\* its key (case ignored) or shares its non-empty providerId; otherwise the
\* reason is "<n> transactions detected" for its n transactions.
C7_Reconciliation ==
    analysed =>
        \A k \in 1..Len(candidates) :
            candidates[k].reason =
                IF matchesExisting(candidates[k]) THEN priceChangeReason
                ELSE detectedReason(Len(candidates[k].transactions))

\* an existing subscription named "Netflix Premium" without a providerId and
\* a Netflix candidate with the price-change reason
C7_Witness ==
    /\ analysed
    /\ \E i \in 1..Len(subscriptions) :
           /\ subscriptions[i].providerId = ""
           /\ toLowerCase(normalizeMerchant(subscriptions[i].name))
                  = <<"n","e","t","f","l","i","x">>
    /\ \A i \in 1..Len(subscriptions) : subscriptions[i].providerId # "netflix"
    /\ \E k \in 1..Len(candidates) :
           /\ toLowerCase(keyOf(candidates[k])) = <<"n","e","t","f","l","i","x">>
           /\ candidates[k].reason = priceChangeReason

\* the selected candidates handleImport has dealt with so far
handled == 1..(importing.pos - 1)

handledCandidate(p) == importing.candidates[importing.selectedCandidates[p]]

\* C8, as stated: handleImport updates (and creates nothing) for every
\* selected candidate the detector gave the price-change reason, and creates
\* a subscription only for the others: at every point of the loop the
\* number of updates is the number of flagged candidates dealt with, and the
\* number of creations the number of the others.
C8_FlagDecides ==
    importing.active =>
        /\ importing.updated =
               Cardinality({p \in handled : handledCandidate(p).reason = priceChangeReason})
        /\ importing.imported =
               Cardinality({p \in handled : handledCandidate(p).reason # priceChangeReason})

\* handleImport has created a subscription for a candidate that carries the
\* price-change reason
C8_Witness ==
    /\ importing.active
    /\ importing.updated = 0
    /\ importing.imported = 1
    /\ importing.pos = 2
    /\ handledCandidate(1).reason = priceChangeReason

\* a < b for two confidences; false when either is NaN
lessThan(a, b) == ~a.nan /\ ~b.nan /\ a.v < b.v

\* the place of a key in the order in which the groups are iterated
iterationPlace(key) ==
    LET keys == entriesOrder(insertionKeys(merchantsOf(transactions)))
    IN  CHOOSE p \in 1..Len(keys) : keys[p] = key

\* C9, as stated: in the returned list no candidate is followed by one with
\* a greater confidence, and candidates with equal confidence stand in the
\* order in which their groups were iterated.
C9_Ranking ==
    analysed =>
        \A i, j \in 1..Len(candidates) :
            i < j =>
                /\ ~lessThan(candidates[i].confidence, candidates[j].confidence)
                /\ (candidates[i].confidence = candidates[j].confidence
                       /\ ~candidates[i].confidence.nan)
                       => iterationPlace(keyOf(candidates[i]))
                              < iterationPlace(keyOf(candidates[j]))

\* a returned list in which a candidate with a smaller confidence stands
\* before one with a greater confidence
C9_Witness ==
    /\ analysed
    /\ \E i, j \in 1..Len(candidates) :
           i < j /\ lessThan(candidates[i].confidence, candidates[j].confidence)

\* C10, as stated: the confidence of every returned candidate is an integer
\* from 0 to 100.
C10_ConfidenceRange ==
    analysed =>
        \A k \in 1..Len(candidates) :
            /\ ~candidates[k].confidence.nan
            /\ candidates[k].confidence.v \in 0..100

\* a returned candidate whose confidence is NaN: its transactions are all of
\* one date
C10_Witness ==
    /\ analysed
    /\ \E k \in 1..Len(candidates) :
           /\ candidates[k].confidence.nan
           /\ gapTotal(candidates[k]) = 0


----------------------------------------------------------------------------
(* Properties of the CSV flow.  In SpecCsv `transactions` is the list that *)
(* handleAnalyze made of the rows with parseCSVRow; it is not empty from   *)
(* the moment the analysis is scheduled.                                   *)

\* C11: for every list of transactions that parseCSVRow makes of the rows
\* of a file, analyzeImportedTransactions returns a list of candidates and
\* does not throw, also when the date text of a row is not a date.
C11_NeverThrows ==
    transactions # <<>> =>
        ~analyzeImportedTransactions(transactions, subscriptions).threw

\* the timer callback ran on a list with a date text that is no date and
\* ended in an exception: the dialog is left analysing, without results
C11_Witness ==
    /\ transactions # <<>>
    /\ \E i \in 1..Len(transactions) : transactions[i].date = InvalidDate
    /\ ~timer.pending
    /\ isAnalyzing
    /\ step = "preview"

\* the file of the end-to-end scenario: three lines for Spotify at 9,99 on
\* the first of three consecutive months
isScenario ==
    /\ csv.fields = << <<"D","a","t","u","m">>, <<"V","e","r","w","e","n","d","u","n","g","s","z","w","e","c","k">>, <<"B","e","t","r","a","g">> >>
    /\ Len(csv.rows) = 3
    /\ \A i \in 1..3 : /\ csv.rows[i][<<"V","e","r","w","e","n","d","u","n","g","s","z","w","e","c","k">>] = <<"S","p","o","t","i","f","y">>
                       /\ csv.rows[i][<<"B","e","t","r","a","g">>] = <<"9",",","9","9">>
    /\ \E y \in 2023..2025, m \in 1..12 :
           {csv.rows[i][<<"D","a","t","u","m">>] : i \in 1..3} =
               {isoText(y + (m + k - 1) \div 12, ((m + k - 1) % 12) + 1, 1) : k \in 0..2}

isNormalizedDate(text) ==
    /\ Len(text) = 10
    /\ \A i \in {1, 2, 3, 4, 6, 7, 9, 10} : IsDigit(text[i])
    /\ text[5] = "-"
    /\ text[8] = "-"

\* C20: every transaction that parseCSVRow makes of a row and that is handed
\* to the detector carries a date text of the form YYYY-MM-DD, whatever the
\* form of the date in the cell.
C20_NormalizedDates ==
    \A i \in 1..Len(transactions) : isNormalizedDate(transactions[i].dateText)

\* the detector was handed a transaction dated '31.01.2024'
C20_Witness ==
    /\ transactions # <<>>
    /\ \E i \in 1..Len(transactions) : transactions[i].dateText = <<"3","1",".","0","1",".","2","0","2","4">>

----------------------------------------------------------------------------
(* Properties of the PDF flow.  In SpecPdf pdf.response is the answer of   *)
(* the route once pdf.phase is "response", and handleFileUpload has dealt  *)
(* with it once pdf.phase is "done".                                       *)

\* C13: a file whose text was read is answered as scanned exactly when its
\* text has fewer than 100 characters a page; the answer for a scanned file
\* has no transactions, extractTransactionsFromPDFText is not called for
\* it, and the dialog schedules and runs no analysis for it.
C13_ScannedShortCircuit ==
    (pdf.phase \in {"response", "done"} /\ ~pdf.file.fails) =>
        /\ pdf.response.ok
        /\ pdf.response.isScanned <=>
               Len(pdf.response.rawText) < 100 * pdf.response.numPages
        /\ pdf.response.isScanned =>
               /\ pdf.response.transactions = <<>>
               /\ ~pdf.extracted
               /\ ~timer.pending
               /\ transactions = <<>>
               /\ candidates = <<>>
               /\ step = "upload"

\* a file of one page with a text of 50 characters was answered as scanned
\* and the dialog is back on the upload step, not analysing
C13_Witness ==
    /\ pdf.phase = "done"
    /\ ~pdf.file.fails
    /\ Len(pdf.file.text) = 50
    /\ pdf.file.numpages = 1
    /\ pdf.response.isScanned
    /\ ~pdf.extracted
    /\ ~isAnalyzing

----------------------------------------------------------------------------
(* Properties of normalizeDate.  In SpecDate call.arg is the argument of   *)
(* the call, written from the day, month and year in call.shape, and       *)
(* call.result is what the call returned.                                  *)

\* C15, as stated: '01.01.50' is normalized to 1950-01-01 and '01.01.49' to
\* 2049-01-01.
C15_Boundary ==
    call.returned =>
        /\ call.arg = <<"0","1",".","0","1",".","5","0">> => call.result = <<"1","9","5","0","-","0","1","-","0","1">>
        /\ call.arg = <<"0","1",".","0","1",".","4","9">> => call.result = <<"2","0","4","9","-","0","1","-","0","1">>

\* C15, amended: the years 51 to 99 are put in the 1900s and the years up to
\* 50 in the 2000s: '01.01.51' is normalized to 1951-01-01, '01.01.50' to
\* 2050-01-01 and '01.01.49' to 2049-01-01.
C15_Pivot ==
    call.returned =>
        /\ call.arg = <<"0","1",".","0","1",".","5","1">> => call.result = <<"1","9","5","1","-","0","1","-","0","1">>
        /\ call.arg = <<"0","1",".","0","1",".","5","0">> => call.result = <<"2","0","5","0","-","0","1","-","0","1">>
        /\ call.arg = <<"0","1",".","0","1",".","4","9">> => call.result = <<"2","0","4","9","-","0","1","-","0","1">>

C15_Witness ==
    /\ call.returned
    /\ call.arg = <<"0","1",".","0","1",".","5","0">>
    /\ call.result = <<"2","0","5","0","-","0","1","-","0","1">>

\* the calendar date a shape of the dates family stands for: its year is
\* the written year, and for a year yy of two digits 19yy if yy > 50 and
\* 20yy otherwise
calendarDate(sh) ==
    isoText(IF sh.format # "dmy2" THEN sh.year
            ELSE IF sh.year > 50 THEN 1900 + sh.year ELSE 2000 + sh.year,
            sh.month, sh.day)

\* C16: for a date in any of the supported formats normalizeDate returns
\* the text YYYY-MM-DD, with leading zeros, of the same calendar date.
C16_RoundTrip ==
    call.returned => call.result = calendarDate(call.shape)

\* the long form with a day of one digit has been normalized
C16_Witness ==
    /\ call.returned
    /\ call.shape.format = "german"
    /\ call.shape.day = 9
    /\ ~call.shape.padded
    /\ call.result = calendarDate(call.shape)

----------------------------------------------------------------------------
(* Properties of the PDF line extractor.  In SpecExtract call.arg is the   *)
(* text of the call, written from the dates, the description and the      *)
(* amount in call.shape, and call.result is the list the call returned.    *)

\* the date of a line of the lines family that the order of the patterns
\* names: the first long-form date, without one the first numeric date with
\* the day first, without one the first date with the year first
chosenDate(sh) ==
    LET rank(d) == CASE d.kind = "german" -> 1 [] d.kind = "numeric" -> 2 [] d.kind = "iso" -> 3
        best == {i \in 1..Len(sh.dates) : \A j \in 1..Len(sh.dates) :
                                             rank(sh.dates[i]) <= rank(sh.dates[j])}
    IN  sh.dates[CHOOSE i \in best : \A j \in best : i <= j]

\* C17: the date of every transaction of a line is the date of the first
\* pattern, in the order long form, numeric, year first, that matches the
\* line, wherever the dates stand in the line; a line without a date gives
\* no transaction.
C17_DatePriority ==
    call.returned =>
        /\ call.shape.dates = <<>> => call.result = <<>>
        /\ \A k \in 1..Len(call.result) :
               call.result[k].date = normalizeDate(chosenDate(call.shape).text)

\* a line with a numeric date before a long-form date gave a transaction,
\* dated by the long form
C17_Witness ==
    /\ call.returned
    /\ call.shape.dates = << [kind |-> "numeric", text |-> <<"0","1",".","0","2",".","2","0","2","4">>],
                             [kind |-> "german", text |-> <<"1","9","."," ","D","e","z","e","m","b","e","r"," ","2","0","2","5">>] >>
    /\ Len(call.result) = 1
    /\ call.result[1].date = <<"2","0","2","5","-","1","2","-","1","9">>

\* the number a is the value of c cents
isCents(a, c) == ~a.nan /\ 100 * a.num = c * a.den

\* C18: a line with one date, a description and the amount '1.234,56 EUR'
\* gives a transaction of 1234.56 EUR, one with 'EUR 22,50' a transaction of
\* 22.50 EUR, and one with '$1,234.56 USD' a transaction in USD.
C18_Examples ==
    (/\ call.returned
     /\ Len(call.shape.dates) = 1
     /\ call.shape.description.text = <<"N","e","t","f","l","i","x">>) =>
        /\ call.shape.amount.text = <<"1",".","2","3","4",",","5","6"," ","E","U","R">> =>
               /\ Len(call.result) = 1
               /\ isCents(call.result[1].amount, 123456)
               /\ call.result[1].currency = "EUR"
        /\ call.shape.amount.text = <<"E","U","R"," ","2","2",",","5","0">> =>
               /\ Len(call.result) = 1
               /\ isCents(call.result[1].amount, 2250)
               /\ call.result[1].currency = "EUR"
        /\ call.shape.amount.text = <<"$","1",",","2","3","4",".","5","6"," ","U","S","D">> =>
               /\ Len(call.result) = 1
               /\ call.result[1].currency = "USD"

\* a line with a date, a description and 'EUR 22,50' gave no transaction
C18_Witness ==
    /\ call.returned
    /\ Len(call.shape.dates) = 1
    /\ call.shape.description.text = <<"N","e","t","f","l","i","x">>
    /\ call.shape.amount.text = <<"E","U","R"," ","2","2",",","5","0">>
    /\ call.result = <<>>

\* C19: the amount of every transaction the extractor returns is a value
\* written in its line, in German and in US notation.
C19_WrittenValue ==
    call.returned =>
        \A k \in 1..Len(call.result) :
            \E c \in call.shape.amount.cents : isCents(call.result[k].amount, c)

\* a line with '12.99 USD' gave a transaction of 1299
C19_Witness ==
    /\ call.returned
    /\ call.shape.amount.text = <<"1","2",".","9","9"," ","U","S","D">>
    /\ Len(call.result) = 1
    /\ isCents(call.result[1].amount, 129900)

----------------------------------------------------------------------------
(* Properties of the mapping flow.  In SpecMap csv.data are the rows of    *)
(* the file and csv.columnMapping is the mapping handleAnalyze reads; while *)
(* the timer is pending, timer.parsed is the list handleAnalyze made.       *)

\* the amounts, in cents, that the cells of the mapping family read as a
\* number with a decimal comma or point have (of a date, parseFloat reads
\* the year)
numbersIn(cell) ==
    CASE cell \in {<<"9",",","9","9">>, <<"9",".","9","9">>} -> {999}
      [] cell = <<"-","1","2",",","5","0"," ","E","U","R">> -> {-1250}
      [] cell \in {<<"2","0","2","4","-","0","1","-","0","1">>, <<"2","0","2","4","-","0","2","-","0","1">>, <<"2","0","2","4","-","0","3","-","0","1">>} -> {202400}
      [] OTHER -> {}

\* the cell of a row in a column; the empty text if the row has none
cellIn(row, column) == IF column \in DOMAIN row THEN row[column] ELSE <<>>

\* what a row is to give with the currency read from the column `currency`:
\* nothing if the date, the description or the amount is missing or the
\* amount is no number
rowResult(row, mapping, currency) ==
    IF \/ cellIn(row, mapping.date) = <<>>
       \/ cellIn(row, mapping.description) = <<>>
       \/ numbersIn(cellIn(row, mapping.amount)) = {}
    THEN <<>>
    ELSE <<[dateText |-> cellIn(row, mapping.date),
            description |-> cellIn(row, mapping.description),
            amount |-> CHOOSE c \in numbersIn(cellIn(row, mapping.amount)) : TRUE,
            currency |-> IF cellIn(row, currency) = <<>> THEN "EUR"
                         ELSE cellIn(row, currency)]>>

\* the date text, description, amount and currency of a list of transactions
contentOf(txs) ==
    [i \in 1..Len(txs) |-> [dateText |-> txs[i].dateText, description |-> txs[i].description,
                            amount |-> txs[i].amount, currency |-> txs[i].currency]]

\* C21, as stated: the list handleAnalyze makes has, in the order of the
\* rows, one transaction for every row with a date, a description and an
\* amount that is a number, with the currency of the mapped currency
\* column, and EUR if no currency column is mapped or the cell is empty.
C21_MappedCurrency ==
    timer.pending =>
        contentOf(timer.parsed) =
            Concat([i \in 1..Len(csv.data) |->
                       rowResult(csv.data[i], csv.columnMapping, csv.columnMapping.currency)])

\* C21, amended: as above, with the currency of the mapped currency
\* column, of the column named 'currency' if no currency column is mapped,
\* and EUR if the row has no such cell or the cell is empty.
C21_RowsParsed ==
    timer.pending =>
        contentOf(timer.parsed) =
            Concat([i \in 1..Len(csv.data) |->
                       rowResult(csv.data[i], csv.columnMapping,
                                 IF csv.columnMapping.currency = <<>> THEN <<"c","u","r","r","e","n","c","y">>
                                 ELSE csv.columnMapping.currency)])

\* with the currency column set to 'Not specified', the second of three
\* rows was skipped for its amount, and the first carries the currency of
\* its cell in the column 'currency'
C21_Witness ==
    /\ timer.pending
    /\ csv.columnMapping.currency = <<>>
    /\ Len(csv.data) = 3
    /\ Len(timer.parsed) = 2
    /\ timer.parsed[1].currency = <<"U","S","D">>
    /\ timer.parsed[2].currency = "EUR"
    /\ timer.parsed[2].dateText = <<"2","0","2","4","-","0","3","-","0","1">>

\* header i of a header line is, in lower case, one of the names of a field
isSynonym(headers, i, field) == toLowerCase(headers[i]) \in ColumnPatterns[field]

----------------------------------------------------------------------------
(* Properties of normalizeMerchant.  In SpecMerchant call.arg is the       *)
(* description, written from the words in call.shape, and call.result is   *)
(* the key the call returned.                                              *)

\* the canonical names of the providers of the descriptions family
canonicalName(provider) ==
    CASE provider = 1 -> <<"N","e","t","f","l","i","x">> [] provider = 5 -> <<"D","A","Z","N">> [] provider = 10 -> <<"V","o","d","a","f","o","n","e">>

\* the words of a description of the family that remain after the cleaning,
\* in lower case: its words and a number of three digits
remainingWords(sh) ==
    [k \in 1..Len(sh.words) |-> toLowerCase(sh.words[k].text)]
        \o (IF sh.after = <<" ","1","2","3">> THEN << <<"1","2","3">> >> ELSE <<>>)

\* C23, as stated: a description that contains the name of a provider gets
\* the canonical name of that provider as its key, so that any two
\* descriptions with the name of the same provider get the same key; a
\* description without the name of a provider gets its first up to three
\* words of more than two characters.
C23_SameProviderSameKey ==
    call.returned =>
        /\ \A k \in 1..Len(call.shape.words) :
               call.shape.words[k].provider > 0 =>
                   call.result = canonicalName(call.shape.words[k].provider)
        /\ (\A k \in 1..Len(call.shape.words) : call.shape.words[k].provider = 0) =>
               call.result = join(Take(SelectSeq(remainingWords(call.shape),
                                                 LAMBDA w : Len(w) > 2), 3))

\* C23, amended: a description that contains names of providers gets the
\* canonical name of the one that stands first in the catalog; a
\* description without the name of a provider gets its first up to three
\* words of more than two characters.
C23_FirstProviderKey ==
    call.returned =>
        /\ \A k \in 1..Len(call.shape.words) :
               (/\ call.shape.words[k].provider > 0
                /\ \A j \in 1..Len(call.shape.words) :
                       call.shape.words[j].provider > 0 =>
                           call.shape.words[k].provider <= call.shape.words[j].provider) =>
                   call.result = canonicalName(call.shape.words[k].provider)
        /\ (\A k \in 1..Len(call.shape.words) : call.shape.words[k].provider = 0) =>
               call.result = join(Take(SelectSeq(remainingWords(call.shape),
                                                 LAMBDA w : Len(w) > 2), 3))

\* 'PAYPAL *VODAFONE NETFLIX 12345' was given the key Netflix
C23_Witness ==
    /\ call.returned
    /\ call.arg = <<"P","A","Y","P","A","L"," ","*","V","O","D","A","F","O","N","E"," ","N","E","T","F","L","I","X"," ","1","2","3","4","5">>
    /\ call.result = <<"N","e","t","f","l","i","x">>

----------------------------------------------------------------------------
(* Properties of repeated calls.  In SpecSessions call.log are the calls   *)
(* made so far, each with its arguments and its result.                    *)

----------------------------------------------------------------------------
(* Properties of the candidates' source transactions, in Spec.             *)

\* how often the transaction x occurs in the list txs
occurrences(x, txs) == Cardinality({i \in 1..Len(txs) : txs[i] = x})

\* how often the transaction x occurs among the source transactions of all
\* candidates
sourceOccurrences(x) ==
    Sum([k \in 1..Len(candidates) |-> occurrences(x, candidates[k].transactions)])

\* C25: every returned candidate has at least two source transactions, all
\* of them normalize to one merchant key, from which the candidate's name
\* is taken, they are in ascending order of their dates, and no transaction
\* of the input is a source transaction of two candidates (or twice of one).
C25_SourceTransactions ==
    analysed =>
        /\ \A k \in 1..Len(candidates) :
               /\ Len(candidates[k].transactions) >= 2
               /\ \A i \in 1..Len(candidates[k].transactions) :
                      merchantOf(candidates[k].transactions[i]) = keyOf(candidates[k])
               /\ candidates[k].subscription.name =
                      IF providerMatch(keyOf(candidates[k])) > 0
                      THEN PROVIDERS[providerMatch(keyOf(candidates[k]))].name
                      ELSE capitalize(keyOf(candidates[k]))
               /\ \A i \in 1..Len(candidates[k].transactions) - 1 :
                      candidates[k].transactions[i].date
                          <= candidates[k].transactions[i + 1].date
        /\ \A k, l \in 1..Len(candidates) : k # l => keyOf(candidates[k]) # keyOf(candidates[l])
        /\ \A i \in 1..Len(transactions) :
               sourceOccurrences(transactions[i]) <= occurrences(transactions[i], transactions)

\* two candidates of two transactions each, from a list in which the
\* transactions of the two merchants alternate
C25_Witness ==
    /\ analysed
    /\ Len(transactions) = 4
    /\ Len(candidates) = 2
    /\ merchantOf(transactions[1]) # merchantOf(transactions[2])
    /\ merchantOf(transactions[1]) = merchantOf(transactions[3])
    /\ candidates[1].transactions = <<transactions[1], transactions[3]>>
    /\ candidates[2].transactions = <<transactions[2], transactions[4]>>

----------------------------------------------------------------------------
(* Properties of the dates of a candidate, in Spec.                        *)

\* the dates of the source transactions of a candidate
sourceDates(c) == {c.transactions[i].date : i \in 1..Len(c.transactions)}

earliestOf(dates) == CHOOSE d \in dates : \A e \in dates : d <= e

latestOf(dates) == CHOOSE d \in dates : \A e \in dates : d >= e

\* Math.round of the mean of the gaps between the dates of a candidate, in
\* order: the gaps add up to the days from the earliest to the latest date
roundedAverageGap(c) ==
    RoundDiv(latestOf(sourceDates(c)) - earliestOf(sourceDates(c)),
             Len(c.transactions) - 1)

\* C26: for every candidate, startDate is the earliest date of its
\* transactions, intervalDays is the rounded average gap and
\* nextPaymentDate is the latest date plus the rounded average gap, hence
\* not before the latest transaction.
C26_CandidateDates ==
    analysed =>
        \A k \in 1..Len(candidates) :
            /\ candidates[k].subscription.startDate
                   = earliestOf(sourceDates(candidates[k]))
            /\ ~candidates[k].intervalDays.nan
            /\ candidates[k].intervalDays.v = roundedAverageGap(candidates[k])
            /\ candidates[k].subscription.nextPaymentDate
                   = latestOf(sourceDates(candidates[k]))
                         + roundedAverageGap(candidates[k])
            /\ candidates[k].subscription.nextPaymentDate
                   >= latestOf(sourceDates(candidates[k]))

\* a candidate from transactions 30 days apart whose next payment date is
\* 29 days after the later one
C26_Witness ==
    /\ analysed
    /\ \E k \in 1..Len(candidates) :
           /\ Len(candidates[k].transactions) = 2
           /\ candidates[k].transactions[2].date = candidates[k].transactions[1].date + 30
           /\ candidates[k].intervalDays.v = 30
           /\ candidates[k].subscription.nextPaymentDate
                  = candidates[k].transactions[2].date + 29

----------------------------------------------------------------------------
(* Properties of the confidence of a group that passed the amount gate,    *)
(* in Spec.                                                                *)

\* the positions of the transactions with grouping key ms[j]
membersOf(ms, j) == {i \in 1..Len(ms) : ms[i] = ms[j]}

\* the group of ms[j] has two or more transactions with valid dates, not
\* all of one day, and no amount 10% or more away from the mean
regularGroup(ms, j) ==
    /\ ms[j] # <<>>
    /\ Cardinality(membersOf(ms, j)) >= 2
    /\ \A i \in membersOf(ms, j) : transactions[i].date # InvalidDate
    /\ \E i \in membersOf(ms, j) : transactions[i].date # transactions[j].date
    /\ \A i \in membersOf(ms, j) :
           ~deviates(Abs(transactions[i].amount), groupAmounts(ms, j))

\* C27: every group of two or more transactions with valid dates, not all
\* of one day, that passes the amount gate is returned as a candidate, with
\* a confidence of at least 42, and of at least 76 if it has exactly two
\* transactions.
C27_NeverDiscarded ==
    analysed =>
        LET ms == merchantsOf(transactions)
        IN  \A j \in 1..Len(ms) :
                regularGroup(ms, j) =>
                    \E k \in 1..Len(candidates) :
                        /\ keyOf(candidates[k]) = ms[j]
                        /\ ~candidates[k].confidence.nan
                        /\ candidates[k].confidence.v >= 42
                        /\ Cardinality(membersOf(ms, j)) = 2 =>
                               candidates[k].confidence.v >= 76

\* a candidate with confidence 42: three transactions, two of them on one
\* day, so that the interval confidence is 0
C27_Witness ==
    /\ analysed
    /\ Len(transactions) = 3
    /\ Len(candidates) = 1
    /\ regularGroup(merchantsOf(transactions), 1)
    /\ transactions[1].date = transactions[2].date
    /\ candidates[1].confidence = Num(42)

----------------------------------------------------------------------------
(* Properties of closing the dialog, in SpecClose.  No file is uploaded    *)
(* after the dialog was closed, so a state on the upload step without      *)
(* transactions is one the reset has left.                                 *)

\* the dialog as reset() leaves it
afterReset ==
    /\ step = "upload"
    /\ transactions = <<>>
    /\ candidates = <<>>
    /\ selectedCandidates = <<>>
    /\ ignoredCandidates = <<>>

\* C28: once the dialog has been closed it stays on the upload step without
\* transactions, candidates and selections; an analysis that was pending
\* when it was closed does not bring it to the results step.
C28_StaysReset == [][afterReset => afterReset']_vars

\* the analysis that was pending when the dialog was closed has run: the
\* dialog is on the results step with candidates and without transactions
C28_Witness ==
    /\ step = "results"
    /\ transactions = <<>>
    /\ Len(candidates) > 0
    /\ Len(selectedCandidates) = Len(candidates)
    /\ ~timer.pending

----------------------------------------------------------------------------
(* Properties of the optimistic updates, in SpecDialog: the calls of       *)
(* addSubscription and updateSubscription made by handleImport.            *)

\* the id of the subscription that the pending iteration of handleImport
\* updates; 0 if it adds one, skips an ignored candidate or is at its end
updateTarget ==
    IF importing.active /\ importing.pos <= Len(importing.selectedCandidates)
    THEN LET existing ==
                 findExisting(importing.subscriptions,
                     importing.candidates[importing.selectedCandidates[importing.pos]])
         IN  IF existing > 0 THEN importing.subscriptions[existing].id ELSE 0
    ELSE 0

\* C29: a save that fails undoes only its own change: whatever the outcome
\* of an add or an update, every other subscription of the local list, as
\* the operations completed before have left it, is still in the list
\* afterwards.
C29_OnlyFailedUndone ==
    [][\A i \in 1..Len(subscriptions) :
           subscriptions[i].id # updateTarget =>
               \E j \in 1..Len(subscriptions') : subscriptions'[j] = subscriptions[i]]_vars

\* handleImport has called addSubscription for two candidates and the local
\* list is the one of the render it was started in: the second save failed
\* and its rollback took the first candidate's subscription out as well
C29_Witness ==
    /\ importing.active
    /\ importing.user
    /\ importing.pos = 3
    /\ importing.imported = 2
    /\ nextId = Len(importing.subscriptions) + 5
    /\ subscriptions = importing.subscriptions

----------------------------------------------------------------------------
(* Properties of the migration, in SpecMigrate.                            *)

\* the entry is a row of the user on the server or an entry of local storage
keptSomewhere(sub) ==
    \/ \E k \in 1..Len(call.server) : call.server[k].from = sub.id
    \/ \E j \in 1..Len(call.local) : call.local[j] = sub

\* C30: after migrateLocalToServer has finished, with or without success,
\* every subscription that was in local storage when it started is stored
\* on the server or still in local storage.
C30_NothingLost ==
    call.phase = "done" =>
        \A i \in 1..Len(call.started) :
            subscriptionSchema(call.started[i]) => keptSomewhere(call.started[i])

\* a migration that was answered with success: of two subscriptions one is
\* on the server, and local storage is empty
C30_Witness ==
    /\ call.phase = "done"
    /\ call.response.ok
    /\ Len(call.body) = 2
    /\ call.response.imported = 1
    /\ Len(call.server) = 1
    /\ call.local = <<>>
=============================================================================
